---------------------------- MODULE Spec2Model ----------------------------
(***************************************************************************)
(* A model of the tws_autorebalance agent: the AutorebalanceApp of         *)
(* src/src/app/autorebalance.py (event callbacks, the rebalance worker and *)
(* its order placement), the risk policy of src/src/security.py, the      *)
(* Order Manager of src/model/data.py (modelled from the specification,   *)
(* its source is not part of the tree) and the broker as the environment.  *)
(*                                                                         *)
(* Numbers: money and share counts are integers; ratios (margin use,       *)
(* policy levels given as 0.80, 0.60 ...) are scaled by 100; times are     *)
(* whole seconds, kept as ages (now - timestamp) that saturate at the      *)
(* first value past which the comparisons made with them no longer change. *)
(***************************************************************************)
EXTENDS Integers, Sequences, FiniteSets, TLC

VARIABLES
    armed,            \* conf.armed
    acct_state,       \* self.acct_state: [set |-> FALSE] is None, else its summary age
    price_watchers,   \* self.price_watchers: req_id -> contract
    portfolio,        \* self.portfolio: contract -> holding (None and {} both the empty map)
    portfolio_prices, \* self.portfolio_prices: contract -> [age, c]
    rebalance_target, \* self.rebalance_target: a dict in insertion order, <<[sc, num]>>
    order_id_queue,   \* self.order_id_queue: Queue(maxsize=1)
    order_manager,    \* self.order_manager: the set of entries [sc, oid, order, state, age]
    rb_pc,            \* where the rebalance worker thread is
    rb_orders,        \* the orders of this iteration still to be placed, <<[sc, order]>>
    rb_oid,           \* the order id safe_place_order took from the queue
    rb_exc,           \* the exception that ended the rebalance worker, or "none"
    evt_exc,          \* the exception that ended the event-dispatch thread, or "none"
    app,              \* "running" | "stopped" (shut_down has run)
    id_requests,      \* reqIds requests the broker has not answered yet
    next_id,          \* the next order id the broker hands out
    broker,           \* the broker's book: oid -> [sc, order, status]
    cancel_sent,      \* cancelOrder calls made, per order id
    refreshes,        \* reqPositions calls made by orderStatus, per order id
    h                 \* the component under study on its own: the call made and its result

vars == <<armed, acct_state, price_watchers, portfolio, portfolio_prices,
          rebalance_target, order_id_queue, order_manager, rb_pc, rb_orders,
          rb_oid, rb_exc, evt_exc, app, id_requests, next_id, broker,
          cancel_sent, refreshes, h>>

---------------------------------------------------------------------------
(* Bounds of the model *)

\* the broker hands out the order ids 1..MaxOid
MaxOid == 2

\* the entry point is followed through MaxRuns applications
MaxRuns == 2

\* validate is applied to the values 0..MaxVal (a ratio scaled by 100)
MaxVal == 100

---------------------------------------------------------------------------
(* The universe *)

\* target_composition.contracts, in the composition's order
ContractSeq == <<"A", "B">>

Contracts == {ContractSeq[i] : i \in 1..Len(ContractSeq)}

\* the composition's weights, scaled by 100
Composition == [sc \in Contracts |-> 50]

\* holdings a position callback reports, share counts the solver returns,
\* close prices a bar carries
Holdings == {0, 100}

AllocValues == {50, 100}

Prices == {10}

\* the age utime() - t of a bar when realtimeBar delivers it
BarAges == {0}

\* seconds the clock advances by in one step
TickSteps == {120}

NoOid == 0

NoSc == "None"

Oids == 1..MaxOid

Min(a, b) == IF a < b THEN a ELSE b

Max(a, b) == IF a > b THEN a ELSE b

Abs(a) == IF a < 0 THEN -a ELSE a

\* the maps contract -> value with a domain inside Contracts
PartialMaps(V) == UNION {[D -> V] : D \in SUBSET Contracts}

EmptyMap == [x \in {} |-> 0]

\* the position batches the broker reports: every contract of the
\* composition, the first one always held
PosBatches == {f \in [Contracts -> Holdings] : f[ContractSeq[1]] = 100}

\* dict.update
MapUpdate(f, g) ==
    [k \in DOMAIN f \cup DOMAIN g |-> IF k \in DOMAIN g THEN g[k] ELSE f[k]]

---------------------------------------------------------------------------
(* Policy constants, src/src/security.py *)

ORDER_COOLOFF == 55

MAX_PRICING_AGE == 20

MAX_ACCT_SUM_AGE == 120

\* float("inf"), the pricing age when a price is missing
Inf == 1000000

MARGIN_USAGE == [kind |-> "max", block |-> 80, confirm |-> 60, notify |-> 40]

MARGIN_REQ == [kind |-> "min", block |-> 15, confirm |-> 20, notify |-> 25]

ORDER_QTY == [kind |-> "max", block |-> 250, confirm |-> 100, notify |-> 50]

ORDER_TOTAL == [kind |-> "max", block |-> 50000, confirm |-> 5000, notify |-> 1000]

---------------------------------------------------------------------------
(* The risk policy, src/src/security.py *)

\* the mutant of Cmp: the comparison includes the level itself
CmpInclusive(rule, a, b) == IF rule.kind = "max" THEN a >= b ELSE a =< b

\* cmp_op: operator.gt of a maximum rule, operator.lt of a minimum rule
Cmp(rule, a, b) == IF rule.kind = "max" THEN a > b ELSE a < b

\* _confirm_danger: the prompt passes on the exact token only
ConfirmDanger(ans) == ans = "YES"

\* validate: [raised, ret, log, prompts]; log is the sequence of LOG calls
\* by level, prompts the number of input() calls
Validate(rule, val, ans) ==
    IF Cmp(rule, val, rule.block)
    THEN [raised |-> TRUE, ret |-> val, log |-> <<"ERROR">>, prompts |-> 0]
    ELSE IF Cmp(rule, val, rule.confirm)
    THEN IF ConfirmDanger(ans)
         THEN [raised |-> FALSE, ret |-> val, log |-> <<"WARNING">>, prompts |-> 1]
         ELSE [raised |-> TRUE, ret |-> val, log |-> <<>>, prompts |-> 1]
    ELSE IF Cmp(rule, val, rule.notify)
    THEN [raised |-> FALSE, ret |-> val, log |-> <<"INFO">>, prompts |-> 0]
    ELSE [raised |-> FALSE, ret |-> val, log |-> <<"DEBUG">>, prompts |-> 0]

\* the Order objects audit_order can be handed
OrderTypes == {"MIDPRICE", "LMT", "MKT"}

OrderSpace ==
    [orderType : OrderTypes, transmit : BOOLEAN, outsideRth : BOOLEAN,
     action : {"BUY", "SELL"}, totalQuantity : {50, 100}, audited : {FALSE}]

\* the mutant of AuditOk: the armed / transmit condition is lost
AuditOkNoArmed(order) == order.orderType = "MIDPRICE" /\ ~order.outsideRth

\* audit_order's succ
AuditOk(order) ==
    /\ order.orderType = "MIDPRICE"
    /\ (armed \/ ~order.transmit)
    /\ ~order.outsideRth

\* audit_order: the assertion fails (ok = FALSE) or the order is marked
AuditOrder(order) ==
    IF AuditOk(order)
    THEN [ok |-> TRUE, order |-> [order EXCEPT !.audited = TRUE]]
    ELSE [ok |-> FALSE, order |-> order]

---------------------------------------------------------------------------
(* The Order Manager (src/model/data.py, from the specification, 3 and 4.2) *)
(* Every operation returns [ret, om]: its result and the book afterwards.   *)

EntriesOf(om, sc) == {e \in om : e.sc = sc}

\* the mutant of Purge: the entry expires when the quiet period is reached
PurgeAtLimit(om, sc) ==
    om \ {e \in om : e.sc = sc /\ e.state = "COOLOFF" /\ e.age >= ORDER_COOLOFF}

\* the lazy expiry: an access to an instrument drops its COOLOFF entry once
\* strictly more than ORDER_COOLOFF seconds have passed since finalize
Purge(om, sc) ==
    om \ {e \in om : e.sc = sc /\ e.state = "COOLOFF" /\ e.age > ORDER_COOLOFF}

\* state_of / __getitem__
OM_get_state(om, sc) ==
    LET om1 == Purge(om, sc) IN
    [ret |-> IF EntriesOf(om1, sc) = {} THEN "UNTRACKED"
             ELSE (CHOOSE e \in EntriesOf(om1, sc) : TRUE).state,
     om |-> om1]

\* lookup_by_order_id: the instrument whose entry holds the order id
OM_get_nc(om, oid) ==
    IF \E e \in om : e.oid = oid
    THEN (CHOOSE e \in om : e.oid = oid).sc
    ELSE NoSc

\* lookup_order: [found, order]
OM_get_order(om, sc) ==
    LET om1 == Purge(om, sc) IN
    [found |-> EntriesOf(om1, sc) # {}, om |-> om1]

\* enter
OM_enter_order(om, sc, oid, order) ==
    LET om1 == Purge(om, sc) IN
    IF EntriesOf(om1, sc) # {}
    THEN [ret |-> FALSE, om |-> om1]
    ELSE [ret |-> TRUE,
          om |-> om1 \cup {[sc |-> sc, oid |-> oid, order |-> order,
                            state |-> "PENDING", age |-> 0]}]

\* the mutant of OM_transmit_order: a second transmit is refused
OM_transmit_once(om, sc) ==
    LET om1 == Purge(om, sc) IN
    IF \E e \in EntriesOf(om1, sc) : e.state = "PENDING"
    THEN [ret |-> TRUE,
          om |-> {IF e.sc = sc THEN [e EXCEPT !.state = "TRANSMITTED"] ELSE e : e \in om1}]
    ELSE [ret |-> FALSE, om |-> om1]

\* transmit
OM_transmit_order(om, sc) ==
    LET om1 == Purge(om, sc) IN
    IF \E e \in EntriesOf(om1, sc) : e.state = "PENDING"
    THEN [ret |-> TRUE,
          om |-> {IF e.sc = sc THEN [e EXCEPT !.state = "TRANSMITTED"] ELSE e : e \in om1}]
    ELSE [ret |-> \E e \in EntriesOf(om1, sc) : e.state = "TRANSMITTED", om |-> om1]

\* the mutant of OM_finalize_order: a finalize in COOLOFF stamps the time again
OM_finalize_restamp(om, sc) ==
    LET om1 == Purge(om, sc) IN
    IF \E e \in EntriesOf(om1, sc) : e.state \in {"TRANSMITTED", "COOLOFF"}
    THEN [ret |-> TRUE,
          om |-> {IF e.sc = sc THEN [e EXCEPT !.state = "COOLOFF", !.age = 0] ELSE e
                  : e \in om1}]
    ELSE [ret |-> FALSE, om |-> om1]

\* finalize
OM_finalize_order(om, sc) ==
    LET om1 == Purge(om, sc) IN
    IF \E e \in EntriesOf(om1, sc) : e.state = "TRANSMITTED"
    THEN [ret |-> TRUE,
          om |-> {IF e.sc = sc THEN [e EXCEPT !.state = "COOLOFF", !.age = 0] ELSE e
                  : e \in om1}]
    ELSE [ret |-> FALSE, om |-> om1]

\* clear_untransmitted: the order id of the PENDING entry removed, or NoOid
OM_clear_untransmitted(om, sc) ==
    LET om1 == Purge(om, sc) IN
    IF \E e \in EntriesOf(om1, sc) : e.state = "PENDING"
    THEN [ret |-> (CHOOSE e \in EntriesOf(om1, sc) : e.state = "PENDING").oid,
          om |-> {e \in om1 : e.sc # sc}]
    ELSE [ret |-> NoOid, om |-> om1]

---------------------------------------------------------------------------
(* Configuration (the [strategy] section read by AutorebalanceConfig) *)

\* conf.dd_reference_ath, in dollars
DD_REFERENCE_ATH == 200

\* conf.misalloc_min_dollars
MISALLOC_MIN_DOLLARS == 400

\* conf.misalloc_min_frac, a ratio scaled by 100 (it is asserted > 1.0)
MISALLOC_MIN_FRAC == 103

\* conf.misalloc_frac_force_elbow (dollars) and conf.misalloc_frac_force_coef
MISALLOC_FRAC_FORCE_ELBOW == 1000

MISALLOC_FRAC_FORCE_COEF == 1

\* PORTFOLIO_PRICE_REQ_ID
PORTFOLIO_PRICE_REQ_ID == 30000

\* what input() can return at a confirmation prompt
Answers == {"YES", "yes", "no", ""}

---------------------------------------------------------------------------
(* Initial state: the application after __init__, a broker with no orders *)

HIdle == [pc |-> "off"]

Init ==
    /\ armed \in BOOLEAN
    /\ acct_state = [set |-> FALSE, age |-> 0]
    /\ price_watchers = EmptyMap
    /\ portfolio = EmptyMap
    /\ portfolio_prices = EmptyMap
    /\ rebalance_target = <<>>
    /\ order_id_queue = <<>>
    /\ order_manager = {}
    /\ rb_pc = "idle"
    /\ rb_orders = <<>>
    /\ rb_oid = NoOid
    /\ rb_exc = "none"
    /\ evt_exc = "none"
    /\ app = "running"
    /\ id_requests = 0
    /\ next_id = 1
    /\ broker = EmptyMap
    /\ cancel_sent = [o \in Oids |-> 0]
    /\ refreshes = [o \in Oids |-> 0]
    /\ h = HIdle

---------------------------------------------------------------------------
(* Cancellation and shutdown.  st = [om, cancels, broker] is the part of   *)
(* the state a cancellation touches.                                       *)

St == [om |-> order_manager, cancels |-> cancel_sent, broker |-> broker]

\* safe_cancel_order: cancelOrder(oid); the broker starts cancelling a live
\* order and confirms later (no acknowledgement is awaited, only sleep(0.1))
SafeCancelOrder(st, oid) ==
    [st EXCEPT !.cancels[oid] = @ + 1,
               !.broker = IF oid \in DOMAIN @ /\ @[oid].status = "live"
                          THEN [@ EXCEPT ![oid].status = "pendingcancel"]
                          ELSE @]

\* the mutant of ClearAnyUntransmittedOrder: the cancel is sent for the
\* entry's order id whether or not the entry was cleared
ClearAnyCancelAlways(st, sc) ==
    LET r == OM_clear_untransmitted(st.om, sc)
        st1 == [st EXCEPT !.om = r.om]
    IN  IF r.ret # NoOid THEN SafeCancelOrder(st1, r.ret)
        ELSE IF EntriesOf(r.om, sc) # {}
        THEN SafeCancelOrder(st1, (CHOOSE e \in EntriesOf(r.om, sc) : TRUE).oid)
        ELSE st1

\* clear_any_untransmitted_order
ClearAnyUntransmittedOrder(st, sc) ==
    LET r == OM_clear_untransmitted(st.om, sc)
        st1 == [st EXCEPT !.om = r.om]
    IN  IF r.ret # NoOid THEN SafeCancelOrder(st1, r.ret) ELSE st1

RECURSIVE ClearAllFrom(_, _)
ClearAllFrom(st, i) ==
    IF i > Len(ContractSeq) THEN st
    ELSE ClearAllFrom(ClearAnyUntransmittedOrder(st, ContractSeq[i]), i + 1)

\* shut_down: retract every PENDING entry, disconnect, sys.exit(-1)
ShutDown ==
    LET st == ClearAllFrom(St, 1) IN
    /\ order_manager' = st.om
    /\ cancel_sent' = st.cancels
    /\ broker' = st.broker
    /\ app' = "stopped"

\* kill_app
KillApp == ShutDown

---------------------------------------------------------------------------
(* Liveness of the cached data *)

\* the mutant of PricingAgeFrom: the youngest price instead of the oldest
RECURSIVE PricingAgeYoungest(_, _)
PricingAgeYoungest(i, age) ==
    IF i > Len(ContractSeq) THEN age
    ELSE IF ContractSeq[i] \notin DOMAIN portfolio_prices THEN Inf
    ELSE PricingAgeYoungest(i + 1,
            IF i = 1 THEN portfolio_prices[ContractSeq[i]].age
            ELSE Min(age, portfolio_prices[ContractSeq[i]].age))

\* the loop of pricing_age
RECURSIVE PricingAgeFrom(_, _)
PricingAgeFrom(i, age) ==
    IF i > Len(ContractSeq) THEN age
    ELSE IF ContractSeq[i] \notin DOMAIN portfolio_prices THEN Inf
    ELSE PricingAgeFrom(i + 1, Max(age, portfolio_prices[ContractSeq[i]].age))

pricing_age == PricingAgeFrom(1, 0)

\* the mutant of is_live: the account snapshot is not looked at
IsLivePricesOnly == pricing_age < MAX_PRICING_AGE

is_live ==
    /\ acct_state.set
    /\ acct_state.age < MAX_ACCT_SUM_AGE
    /\ pricing_age < MAX_PRICING_AGE

---------------------------------------------------------------------------
(* Event callbacks: they run one at a time on the event-dispatch thread.   *)

EventThreadRuns == app = "running" /\ evt_exc = "none"

Range(f) == {f[k] : k \in DOMAIN f}

\* accountSummary ... accountSummaryEnd: a complete summary replaces the
\* account snapshot (its amounts decide no branch and are left out)
AccountSummaryEnd ==
    /\ EventThreadRuns
    /\ acct_state' = [set |-> TRUE, age |-> 0]
    /\ UNCHANGED <<armed, price_watchers, portfolio, portfolio_prices,
                   rebalance_target, order_id_queue, order_manager, rb_pc,
                   rb_orders, rb_oid, rb_exc, evt_exc, app, id_requests,
                   next_id, broker, cancel_sent, refreshes, h>>

\* the mutant of Subscribe: every instrument of the composition is
\* subscribed, reported by the batch or not
RECURSIVE SubscribeAll(_, _, _)
SubscribeAll(pw, keys, i) ==
    IF i > Len(ContractSeq) THEN pw
    ELSE LET sc == ContractSeq[i] IN
         IF sc \notin {pw[k] : k \in DOMAIN pw}
         THEN SubscribeAll(pw @@ ((PORTFOLIO_PRICE_REQ_ID + Cardinality(DOMAIN pw)) :> sc),
                           keys, i + 1)
         ELSE SubscribeAll(pw, keys, i + 1)

\* the subscription loop of positionEnd, over the batch in composition order
RECURSIVE Subscribe(_, _, _)
Subscribe(pw, keys, i) ==
    IF i > Len(ContractSeq) THEN pw
    ELSE LET sc == ContractSeq[i] IN
         IF sc \in keys /\ sc \notin Range(pw)
         THEN Subscribe(pw @@ ((PORTFOLIO_PRICE_REQ_ID + Cardinality(DOMAIN pw)) :> sc),
                        keys, i + 1)
         ELSE Subscribe(pw, keys, i + 1)

\* the mutant of PositionEnd: unknown portfolio keys are let through
PositionEndTolerant(pos_data) ==
    /\ EventThreadRuns
    /\ portfolio' = MapUpdate(portfolio, pos_data)
    /\ price_watchers' = Subscribe(price_watchers, DOMAIN pos_data, 1)
    /\ UNCHANGED <<order_manager, cancel_sent, broker, app>>
    /\ UNCHANGED <<armed, acct_state, portfolio_prices, rebalance_target,
                   order_id_queue, rb_pc, rb_orders, rb_oid, rb_exc, evt_exc,
                   id_requests, next_id, refreshes, h>>

\* position ... positionEnd: the batch pos_data (position_acc is empty again
\* when positionEnd returns)
PositionEnd(pos_data) ==
    /\ EventThreadRuns
    /\ LET port == MapUpdate(portfolio, pos_data)
           bad_keys == DOMAIN port \ Contracts
       IN  IF bad_keys # {}
           THEN /\ portfolio' = port
                /\ KillApp
                /\ UNCHANGED price_watchers
           ELSE /\ portfolio' = port
                /\ price_watchers' = Subscribe(price_watchers, DOMAIN pos_data, 1)
                /\ UNCHANGED <<order_manager, cancel_sent, broker, app>>
    /\ UNCHANGED <<armed, acct_state, portfolio_prices, rebalance_target,
                   order_id_queue, rb_pc, rb_orders, rb_oid, rb_exc, evt_exc,
                   id_requests, next_id, refreshes, h>>

\* realtimeBar
RealtimeBar(req_id, bar_age, c) ==
    /\ EventThreadRuns
    /\ IF req_id \in DOMAIN price_watchers
       THEN /\ portfolio_prices' =
                   MapUpdate(portfolio_prices, price_watchers[req_id] :> [age |-> bar_age, c |-> c])
            /\ UNCHANGED <<order_manager, cancel_sent, broker, app>>
       ELSE /\ KillApp
            /\ UNCHANGED portfolio_prices
    /\ UNCHANGED <<armed, acct_state, price_watchers, portfolio, rebalance_target,
                   order_id_queue, rb_pc, rb_orders, rb_oid, rb_exc, evt_exc,
                   id_requests, next_id, refreshes, h>>

\* the mutant of NextValidId: the reply is handed over only once the
\* rebalance thread has left its wait
NextValidIdAfterWait ==
    /\ EventThreadRuns
    /\ rb_pc # "wait_id"
    /\ id_requests > 0
    /\ next_id <= MaxOid
    /\ id_requests' = id_requests - 1
    /\ next_id' = next_id + 1
    /\ order_id_queue' = Append(order_id_queue, next_id)
    /\ UNCHANGED <<order_manager, cancel_sent, broker, app>>
    /\ UNCHANGED <<armed, acct_state, price_watchers, portfolio, portfolio_prices,
                   rebalance_target, rb_pc, rb_orders, rb_oid, rb_exc, evt_exc,
                   refreshes, h>>

\* nextValidId -> next_requested_id: the broker's reply to one reqIds
NextValidId ==
    /\ EventThreadRuns
    /\ id_requests > 0
    /\ next_id <= MaxOid
    /\ id_requests' = id_requests - 1
    /\ next_id' = next_id + 1
    /\ IF Len(order_id_queue) < 1
       THEN /\ order_id_queue' = Append(order_id_queue, next_id)
            /\ UNCHANGED <<order_manager, cancel_sent, broker, app>>
       ELSE /\ KillApp
            /\ UNCHANGED order_id_queue
    /\ UNCHANGED <<armed, acct_state, price_watchers, portfolio, portfolio_prices,
                   rebalance_target, rb_pc, rb_orders, rb_oid, rb_exc, evt_exc,
                   refreshes, h>>

\* openOrder, for an order that is open at the broker
OpenOrder(oid) ==
    /\ EventThreadRuns
    /\ oid \in DOMAIN broker
    /\ broker[oid].status \in {"live", "pendingcancel"}
    /\ IF OM_get_nc(order_manager, oid) # NoSc
       THEN UNCHANGED order_manager
       ELSE LET sc == broker[oid].sc
                entered == OM_enter_order(order_manager, sc, oid, broker[oid].order)
            IN  order_manager' = OM_transmit_order(entered.om, sc).om
    /\ UNCHANGED <<armed, acct_state, price_watchers, portfolio, portfolio_prices,
                   rebalance_target, order_id_queue, rb_pc, rb_orders, rb_oid,
                   rb_exc, evt_exc, app, id_requests, next_id, broker,
                   cancel_sent, refreshes, h>>

\* the status string the broker reports for an order
StatusOf(o) ==
    CASE o.status = "live" -> "Submitted"
      [] o.status = "pendingcancel" -> "PendingCancel"
      [] o.status = "filled" -> "Filled"
      [] o.status = "cancelled" -> "Cancelled"

\* every status string a callback can carry
StatusStrings ==
    {"PreSubmitted", "Submitted", "PendingCancel", "Filled", "Cancelled", "Inactive"}

\* a mutant of OrderStatusEffect: no early return for a COOLOFF entry
OrderStatusNoDrop(om, oid, status) ==
    LET sc == OM_get_nc(om, oid) IN
    IF sc = NoSc THEN [exc |-> "AssertionError", om |-> om, refresh |-> 0]
    ELSE LET got == OM_get_order(om, sc) IN
    IF ~got.found THEN [exc |-> "AssertionError", om |-> got.om, refresh |-> 0]
    ELSE LET state == OM_get_state(got.om, sc)
             tr == IF state.ret = "TRANSMITTED"
                   THEN [ret |-> TRUE, om |-> state.om]
                   ELSE OM_transmit_order(state.om, sc)
         IN
    IF ~tr.ret THEN [exc |-> "AssertionError", om |-> tr.om, refresh |-> 0]
    ELSE IF status \in {"Filled", "Cancelled"}
    THEN LET fin == OM_finalize_order(tr.om, sc) IN
         IF ~fin.ret THEN [exc |-> "AssertionError", om |-> fin.om, refresh |-> 0]
         ELSE [exc |-> "none", om |-> fin.om,
               refresh |-> IF status = "Filled" THEN 1 ELSE 0]
    ELSE [exc |-> "none", om |-> tr.om, refresh |-> 0]

\* a mutant of OrderStatusEffect: a "Filled" dropped for a COOLOFF entry
\* still requests the positions
OrderStatusRefreshAgain(om, oid, status) ==
    LET sc == OM_get_nc(om, oid) IN
    IF sc = NoSc THEN [exc |-> "AssertionError", om |-> om, refresh |-> 0]
    ELSE LET got == OM_get_order(om, sc) IN
    IF ~got.found THEN [exc |-> "AssertionError", om |-> got.om, refresh |-> 0]
    ELSE LET state == OM_get_state(got.om, sc) IN
    IF state.ret = "COOLOFF"
    THEN [exc |-> "none", om |-> state.om,
          refresh |-> IF status = "Filled" THEN 1 ELSE 0]
    ELSE LET tr == IF state.ret = "TRANSMITTED"
                   THEN [ret |-> TRUE, om |-> state.om]
                   ELSE OM_transmit_order(state.om, sc)
         IN
    IF ~tr.ret THEN [exc |-> "AssertionError", om |-> tr.om, refresh |-> 0]
    ELSE IF status \in {"Filled", "Cancelled"}
    THEN LET fin == OM_finalize_order(tr.om, sc) IN
         IF ~fin.ret THEN [exc |-> "AssertionError", om |-> fin.om, refresh |-> 0]
         ELSE [exc |-> "none", om |-> fin.om,
               refresh |-> IF status = "Filled" THEN 1 ELSE 0]
    ELSE [exc |-> "none", om |-> tr.om, refresh |-> 0]

\* the body of orderStatus: [exc, om, refresh]
OrderStatusEffect(om, oid, status) ==
    LET sc == OM_get_nc(om, oid) IN
    IF sc = NoSc THEN [exc |-> "AssertionError", om |-> om, refresh |-> 0]
    ELSE LET got == OM_get_order(om, sc) IN
    IF ~got.found THEN [exc |-> "AssertionError", om |-> got.om, refresh |-> 0]
    ELSE LET state == OM_get_state(got.om, sc) IN
    IF state.ret = "COOLOFF" THEN [exc |-> "none", om |-> state.om, refresh |-> 0]
    ELSE LET tr == IF state.ret = "TRANSMITTED"
                   THEN [ret |-> TRUE, om |-> state.om]
                   ELSE OM_transmit_order(state.om, sc)
         IN
    IF ~tr.ret THEN [exc |-> "AssertionError", om |-> tr.om, refresh |-> 0]
    ELSE IF status \in {"Filled", "Cancelled"}
    THEN LET fin == OM_finalize_order(tr.om, sc) IN
         IF ~fin.ret THEN [exc |-> "AssertionError", om |-> fin.om, refresh |-> 0]
         ELSE [exc |-> "none", om |-> fin.om,
               refresh |-> IF status = "Filled" THEN 1 ELSE 0]
    ELSE [exc |-> "none", om |-> tr.om, refresh |-> 0]

\* orderStatus, for an order the broker holds, with its current status
OrderStatus(oid) ==
    /\ EventThreadRuns
    /\ oid \in DOMAIN broker
    /\ LET r == OrderStatusEffect(order_manager, oid, StatusOf(broker[oid])) IN
       /\ order_manager' = r.om
       /\ evt_exc' = r.exc
       /\ refreshes' = [refreshes EXCEPT ![oid] = @ + r.refresh]
    /\ UNCHANGED <<armed, acct_state, price_watchers, portfolio, portfolio_prices,
                   rebalance_target, order_id_queue, rb_pc, rb_orders, rb_oid,
                   rb_exc, app, id_requests, next_id, broker, cancel_sent, h>>

---------------------------------------------------------------------------
(* The rebalance worker, one iteration of rebalance_worker                 *)

RebalanceThreadRuns == app = "running" /\ rb_exc = "none"

\* a dict in insertion order: assignment and pop
DictSet(d, k, v) ==
    IF \E i \in 1..Len(d) : d[i].sc = k
    THEN [i \in 1..Len(d) |-> IF d[i].sc = k THEN [sc |-> k, num |-> v] ELSE d[i]]
    ELSE Append(d, [sc |-> k, num |-> v])

DictPop(d, k) == SelectSeq(d, LAMBDA e : e.sc # k)

DictKeys(d) == {d[i].sc : i \in 1..Len(d)}

\* sum of weight * close price over the composition (weights scaled by 100)
RECURSIVE PortPriceFrom(_)
PortPriceFrom(i) ==
    IF i > Len(ContractSeq) THEN 0
    ELSE Composition[ContractSeq[i]] * portfolio_prices[ContractSeq[i]].c
         + PortPriceFrom(i + 1)

\* effective_drawdown's assertion 0 <= 1 - port_price / dd_reference_ath < 1
DrawdownInRange ==
    /\ PortPriceFrom(1) > 0
    /\ PortPriceFrom(1) <= 100 * DD_REFERENCE_ATH

\* check_if_needs_rebalance (src/model/calc.py, from the specification, 4.3
\* step 5): the dollar misallocation exceeds its floor and the misallocation
\* ratio exceeds the fraction floor, which falls past the elbow
EffectiveFracFloor(dollars) ==
    IF dollars <= MISALLOC_FRAC_FORCE_ELBOW THEN MISALLOC_MIN_FRAC
    ELSE Max(0, MISALLOC_MIN_FRAC
                - MISALLOC_FRAC_FORCE_COEF * (dollars - MISALLOC_FRAC_FORCE_ELBOW))

NeedsRebalance(price, cur, target) ==
    LET dollars == Abs(target - cur) * price IN
    /\ dollars > MISALLOC_MIN_DOLLARS
    /\ Max(cur, target) * 100 > EffectiveFracFloor(dollars) * Min(cur, target)

\* the mutant of DecideOne: the target of an instrument that needs no action
\* is dropped but its untransmitted order is not retracted
DecideOneNoClear(st, sc, model_alloc) ==
    IF st.exc # "none" THEN st
    ELSE IF sc \notin DOMAIN portfolio THEN [st EXCEPT !.exc = "KeyError"]
    ELSE
    LET target_alloc == model_alloc[sc]
        cur_alloc == portfolio[sc]
        price == portfolio_prices[sc].c
        st1 == IF NeedsRebalance(price, cur_alloc, target_alloc)
               THEN [st EXCEPT !.rt = DictSet(@, sc, target_alloc - cur_alloc)]
               ELSE [st EXCEPT !.rt = DictPop(@, sc)]
    IN  IF target_alloc # cur_alloc /\ (cur_alloc = 0 \/ target_alloc = 0)
        THEN [st1 EXCEPT !.exc = "ZeroDivisionError"]
        ELSE st1

\* one pass of the loop over target_composition.contracts; st carries
\* [om, cancels, broker, rt, exc], rt being rebalance_target
DecideOne(st, sc, model_alloc) ==
    IF st.exc # "none" THEN st
    ELSE IF sc \notin DOMAIN portfolio THEN [st EXCEPT !.exc = "KeyError"]
    ELSE
    LET target_alloc == model_alloc[sc]
        cur_alloc == portfolio[sc]
        price == portfolio_prices[sc].c
        st1 == IF NeedsRebalance(price, cur_alloc, target_alloc)
               THEN [st EXCEPT !.rt = DictSet(@, sc, target_alloc - cur_alloc)]
               ELSE ClearAnyUntransmittedOrder([st EXCEPT !.rt = DictPop(@, sc)], sc)
    IN  \* max(1 - target_alloc / cur_alloc, 1 - cur_alloc / target_alloc) on
        \* the integers the position callback and the solver give
        IF target_alloc # cur_alloc /\ (cur_alloc = 0 \/ target_alloc = 0)
        THEN [st1 EXCEPT !.exc = "ZeroDivisionError"]
        ELSE st1

RECURSIVE DecideFrom(_, _, _)
DecideFrom(st, i, model_alloc) ==
    IF i > Len(ContractSeq) THEN st
    ELSE DecideFrom(DecideOne(st, ContractSeq[i], model_alloc), i + 1, model_alloc)

\* the Order construct_rebalance_orders builds for a share delta, before audit
MkOrder(num) ==
    [orderType |-> "MIDPRICE", transmit |-> armed, outsideRth |-> FALSE,
     action |-> IF num > 0 THEN "BUY" ELSE "SELL",
     totalQuantity |-> Abs(num), audited |-> FALSE]

\* the mutant of ConstructFrom: the running total is not validated
RECURSIVE ConstructFromNoTotal(_, _, _, _, _)
ConstructFromNoTotal(rt, i, total_amt, orders, answers) ==
    IF i > Len(rt)
    THEN [exc |-> "none", orders |-> orders]
    ELSE LET nc == rt[i].sc
             qty == Abs(rt[i].num)
             audit == AuditOrder(MkOrder(rt[i].num))
         IN  IF Validate(ORDER_QTY, qty, answers[i]).raised
             THEN [exc |-> "SecurityFault", orders |-> orders]
             ELSE IF ~audit.ok
             THEN [exc |-> "AssertionError", orders |-> orders]
             ELSE ConstructFromNoTotal(rt, i + 1,
                                       total_amt + portfolio_prices[nc].c * qty,
                                       Append(orders, [sc |-> nc, order |-> audit.order]),
                                       answers)

\* construct_rebalance_orders over rebalance_target rt: [exc, orders];
\* answers[i] is the reply to the i-th rule's prompt, if it prompts
RECURSIVE ConstructFrom(_, _, _, _, _)
ConstructFrom(rt, i, total_amt, orders, answers) ==
    IF i > Len(rt)
    THEN [exc |-> IF Validate(ORDER_TOTAL, total_amt, answers[Len(answers)]).raised
                  THEN "SecurityFault" ELSE "none",
          orders |-> orders]
    ELSE LET nc == rt[i].sc
             qty == Abs(rt[i].num)
             audit == AuditOrder(MkOrder(rt[i].num))
         IN  IF Validate(ORDER_QTY, qty, answers[i]).raised
             THEN [exc |-> "SecurityFault", orders |-> orders]
             ELSE IF ~audit.ok
             THEN [exc |-> "AssertionError", orders |-> orders]
             ELSE ConstructFrom(rt, i + 1, total_amt + portfolio_prices[nc].c * qty,
                                Append(orders, [sc |-> nc, order |-> audit.order]),
                                answers)

\* the replies a run of the worker can get at its prompts
PromptReplies == [1..(Len(ContractSeq) + 1) -> {"YES", "no"}]

\* rebalance_worker when not live: "did nothing"
RebalanceSkip ==
    /\ RebalanceThreadRuns
    /\ rb_pc = "idle"
    /\ ~is_live
    /\ UNCHANGED vars

\* the mutant of RebalanceInfeasible: PortfolioSolverError leaves the worker
\* like any other exception
RebalanceInfeasibleFatal ==
    /\ RebalanceThreadRuns
    /\ rb_pc = "idle"
    /\ is_live
    /\ DrawdownInRange
    /\ rb_exc' = "PortfolioSolverError"
    /\ rb_pc' = "raised"
    /\ UNCHANGED <<armed, acct_state, price_watchers, portfolio, portfolio_prices,
                   rebalance_target, order_id_queue, order_manager, rb_orders,
                   rb_oid, evt_exc, app, id_requests, next_id, broker, cancel_sent,
                   refreshes, h>>

\* rebalance_worker when the solver raises PortfolioSolverError, which the
\* worker boundary suppresses
RebalanceInfeasible ==
    /\ RebalanceThreadRuns
    /\ rb_pc = "idle"
    /\ is_live
    /\ DrawdownInRange
    /\ UNCHANGED vars

\* rebalance_worker up to the first safe_place_order: the liveness gate, the
\* solver's answer model_alloc, the loop over the contracts and
\* construct_rebalance_orders
RebalanceIterate(model_alloc, answers) ==
    /\ RebalanceThreadRuns
    /\ rb_pc = "idle"
    /\ is_live
    /\ IF ~DrawdownInRange
       THEN /\ rb_exc' = "AssertionError"
            /\ rb_pc' = "raised"
            /\ UNCHANGED <<rebalance_target, order_manager, cancel_sent, broker,
                           rb_orders>>
       ELSE LET st == DecideFrom([om |-> order_manager, cancels |-> cancel_sent,
                                  broker |-> broker, rt |-> rebalance_target,
                                  exc |-> "none"], 1, model_alloc)
                built == IF st.exc = "none" /\ Len(st.rt) > 0
                         THEN ConstructFrom(st.rt, 1, 0, <<>>, answers)
                         ELSE [exc |-> st.exc, orders |-> <<>>]
            IN  /\ rebalance_target' = st.rt
                /\ order_manager' = st.om
                /\ cancel_sent' = st.cancels
                /\ broker' = st.broker
                /\ rb_exc' = built.exc
                /\ rb_orders' = IF built.exc = "none" THEN built.orders ELSE <<>>
                /\ rb_pc' = IF built.exc # "none" THEN "raised"
                            ELSE IF built.orders = <<>> THEN "idle" ELSE "place"
    /\ UNCHANGED <<armed, acct_state, price_watchers, portfolio, portfolio_prices,
                   order_id_queue, rb_oid, evt_exc, app, id_requests, next_id,
                   refreshes, h>>

\* after safe_place_order returns: the next order, or the end of the iteration
NextOrderPc == IF Len(rb_orders) > 1 THEN "place" ELSE "idle"

\* the mutant of PlaceRequestId: two id requests are issued for one placement
PlaceRequestIdTwice ==
    /\ RebalanceThreadRuns
    /\ rb_pc = "place"
    /\ id_requests' = id_requests + 2
    /\ rb_pc' = "wait_id"
    /\ UNCHANGED <<armed, acct_state, price_watchers, portfolio, portfolio_prices,
                   rebalance_target, order_id_queue, order_manager, rb_orders,
                   rb_oid, rb_exc, evt_exc, app, next_id, broker, cancel_sent,
                   refreshes, h>>

\* safe_place_order, first part: the audited marker is asserted, reqIds(-1)
PlaceRequestId ==
    /\ RebalanceThreadRuns
    /\ rb_pc = "place"
    /\ IF rb_orders[1].order.audited
       THEN /\ id_requests' = id_requests + 1
            /\ rb_pc' = "wait_id"
            /\ UNCHANGED rb_exc
       ELSE /\ rb_exc' = "AssertionError"
            /\ rb_pc' = "raised"
            /\ UNCHANGED id_requests
    /\ UNCHANGED <<armed, acct_state, price_watchers, portfolio, portfolio_prices,
                   rebalance_target, order_id_queue, order_manager, rb_orders,
                   rb_oid, evt_exc, app, next_id, broker, cancel_sent, refreshes, h>>

\* safe_place_order, second part: order_id_queue.get() returns, then
\* clear_any_untransmitted_order(sc)
PlaceTakeId ==
    /\ RebalanceThreadRuns
    /\ rb_pc = "wait_id"
    /\ Len(order_id_queue) > 0
    /\ rb_oid' = Head(order_id_queue)
    /\ order_id_queue' = Tail(order_id_queue)
    /\ LET st == ClearAnyUntransmittedOrder(St, rb_orders[1].sc) IN
       /\ order_manager' = st.om
       /\ cancel_sent' = st.cancels
       /\ broker' = st.broker
    /\ rb_pc' = "enter"
    /\ UNCHANGED <<armed, acct_state, price_watchers, portfolio, portfolio_prices,
                   rebalance_target, rb_orders, rb_exc, evt_exc, app, id_requests,
                   next_id, refreshes, h>>

\* the mutant of PlaceAfterEnter: the result of enter_order is ignored
PlaceAfterEnterIgnored(entered) == "send"

\* safe_place_order: where it goes after enter_order returned
PlaceAfterEnter(entered) == IF entered THEN "send" ELSE NextOrderPc

\* safe_place_order, third part: enter_order; a rejected order is dropped
PlaceEnter ==
    /\ RebalanceThreadRuns
    /\ rb_pc = "enter"
    /\ LET r == OM_enter_order(order_manager, rb_orders[1].sc, rb_oid,
                               rb_orders[1].order)
       IN  /\ order_manager' = r.om
           /\ rb_pc' = PlaceAfterEnter(r.ret)
           /\ rb_orders' = IF PlaceAfterEnter(r.ret) = "send" THEN rb_orders
                           ELSE Tail(rb_orders)
    /\ UNCHANGED <<armed, acct_state, price_watchers, portfolio, portfolio_prices,
                   rebalance_target, order_id_queue, rb_oid, rb_exc, evt_exc, app,
                   id_requests, next_id, broker, cancel_sent, refreshes, h>>

\* safe_place_order, last part: placeOrder(oid, contract, order)
PlaceSend ==
    /\ RebalanceThreadRuns
    /\ rb_pc = "send"
    /\ broker' = broker @@ (rb_oid :> [sc |-> rb_orders[1].sc,
                                       order |-> rb_orders[1].order,
                                       status |-> "live"])
    /\ rb_pc' = NextOrderPc
    /\ rb_orders' = Tail(rb_orders)
    /\ UNCHANGED <<armed, acct_state, price_watchers, portfolio, portfolio_prices,
                   rebalance_target, order_id_queue, order_manager, rb_oid, rb_exc,
                   evt_exc, app, id_requests, next_id, cancel_sent, refreshes, h>>

\* an exception other than PortfolioSolverError leaves the worker and the
\* application shuts down (specification, 4.4)
WorkerCrash ==
    /\ app = "running"
    /\ rb_pc = "raised"
    /\ rb_pc' = "dead"
    /\ ShutDown
    /\ UNCHANGED <<armed, acct_state, price_watchers, portfolio, portfolio_prices,
                   rebalance_target, order_id_queue, rb_orders, rb_oid, rb_exc,
                   evt_exc, id_requests, next_id, refreshes, h>>

---------------------------------------------------------------------------
(* The broker and the clock *)

\* an order that was transmitted fills
BrokerFill(oid) ==
    /\ oid \in DOMAIN broker
    /\ broker[oid].status \in {"live", "pendingcancel"}
    /\ broker[oid].order.transmit
    /\ broker' = [broker EXCEPT ![oid].status = "filled"]
    /\ UNCHANGED <<armed, acct_state, price_watchers, portfolio, portfolio_prices,
                   rebalance_target, order_id_queue, order_manager, rb_pc, rb_orders,
                   rb_oid, rb_exc, evt_exc, app, id_requests, next_id, cancel_sent,
                   refreshes, h>>

\* a requested cancellation takes effect, or a live order expires (GTD)
BrokerCancel(oid) ==
    /\ oid \in DOMAIN broker
    /\ broker[oid].status \in {"live", "pendingcancel"}
    /\ broker' = [broker EXCEPT ![oid].status = "cancelled"]
    /\ UNCHANGED <<armed, acct_state, price_watchers, portfolio, portfolio_prices,
                   rebalance_target, order_id_queue, order_manager, rb_pc, rb_orders,
                   rb_oid, rb_exc, evt_exc, app, id_requests, next_id, cancel_sent,
                   refreshes, h>>

\* an age dt seconds later, saturating at cap
Older(age, dt, cap) == Min(age + dt, cap)

\* dt seconds pass
Tick(dt) ==
    /\ app = "running"
    /\ acct_state' = IF acct_state.set
                     THEN [acct_state EXCEPT !.age = Older(@, dt, MAX_ACCT_SUM_AGE)]
                     ELSE acct_state
    /\ portfolio_prices' =
           [sc \in DOMAIN portfolio_prices |->
               [portfolio_prices[sc] EXCEPT !.age = Older(@, dt, MAX_PRICING_AGE)]]
    /\ order_manager' =
           {IF e.state = "COOLOFF" THEN [e EXCEPT !.age = Older(@, dt, ORDER_COOLOFF + 1)]
            ELSE e : e \in order_manager}
    /\ UNCHANGED <<armed, price_watchers, portfolio, rebalance_target,
                   order_id_queue, rb_pc, rb_orders, rb_oid, rb_exc, evt_exc, app,
                   id_requests, next_id, broker, cancel_sent, refreshes, h>>

---------------------------------------------------------------------------
(* The system *)

Next ==
    \/ AccountSummaryEnd
    \/ \E pos_data \in PosBatches : PositionEnd(pos_data)
    \/ \E req_id \in PORTFOLIO_PRICE_REQ_ID..(PORTFOLIO_PRICE_REQ_ID + Len(ContractSeq)),
          bar_age \in BarAges, c \in Prices : RealtimeBar(req_id, bar_age, c)
    \/ NextValidId
    \/ \E oid \in Oids : OpenOrder(oid)
    \/ \E oid \in Oids : OrderStatus(oid)
    \/ RebalanceSkip
    \/ RebalanceInfeasible
    \/ \E model_alloc \in [Contracts -> AllocValues], answers \in PromptReplies :
          RebalanceIterate(model_alloc, answers)
    \/ PlaceRequestId
    \/ PlaceTakeId
    \/ PlaceEnter
    \/ PlaceSend
    \/ WorkerCrash
    \/ \E oid \in Oids : BrokerFill(oid)
    \/ \E oid \in Oids : BrokerCancel(oid)
    \/ \E dt \in TickSteps : Tick(dt)

Spec == Init /\ [][Next]_vars

---------------------------------------------------------------------------
(* validate on its own: every rule, value and reply, one call each *)

ValidateRules == {MARGIN_USAGE, MARGIN_REQ}

InitValidate ==
    /\ armed \in BOOLEAN
    /\ acct_state = [set |-> FALSE, age |-> 0]
    /\ price_watchers = EmptyMap
    /\ portfolio = EmptyMap
    /\ portfolio_prices = EmptyMap
    /\ rebalance_target = <<>>
    /\ order_id_queue = <<>>
    /\ order_manager = {}
    /\ rb_pc = "idle"
    /\ rb_orders = <<>>
    /\ rb_oid = NoOid
    /\ rb_exc = "none"
    /\ evt_exc = "none"
    /\ app = "running"
    /\ id_requests = 0
    /\ next_id = 1
    /\ broker = EmptyMap
    /\ cancel_sent = [o \in Oids |-> 0]
    /\ refreshes = [o \in Oids |-> 0]
    /\ h \in [pc : {"call"}, rule : ValidateRules, val : 0..MaxVal, ans : Answers]

\* rule.validate(val), the user answering ans if prompted
ValidateCall ==
    /\ h.pc = "call"
    /\ h' = [pc |-> "done", rule |-> h.rule, val |-> h.val, ans |-> h.ans,
             res |-> Validate(h.rule, h.val, h.ans)]
    /\ UNCHANGED <<armed, acct_state, price_watchers, portfolio, portfolio_prices,
                   rebalance_target, order_id_queue, order_manager, rb_pc, rb_orders,
                   rb_oid, rb_exc, evt_exc, app, id_requests, next_id, broker,
                   cancel_sent, refreshes>>

NextValidate == ValidateCall

SpecValidate == InitValidate /\ [][NextValidate]_vars

---------------------------------------------------------------------------
(* The Order Manager and the callbacks on their own: every sequence of      *)
(* enter / transmit / finalize / clear_untransmitted / state lookups, of    *)
(* placements (safe_place_order from its clear on), of openOrder and        *)
(* orderStatus callbacks and of broker events, with a clock fine enough to  *)
(* meet the cooloff limit exactly.  h holds the last call and its result.   *)

\* seconds the clock advances by in one step of this specification
CooloffSteps == {27, 28}

\* the order the calls enter: a sale of 50 shares, audited
BookOrder == [MkOrder(-50) EXCEPT !.audited = TRUE]

\* the order ids no entry and no broker order holds
FreshOids == {o \in Oids : o \notin DOMAIN broker /\ \A e \in order_manager : e.oid # o}

OMResult(op, sc, ok, oid, state) ==
    [pc |-> "om", op |-> op, sc |-> sc, ok |-> ok, oid |-> oid, state |-> state]

InitOM ==
    /\ armed \in BOOLEAN
    /\ acct_state = [set |-> FALSE, age |-> 0]
    /\ price_watchers = EmptyMap
    /\ portfolio = EmptyMap
    /\ portfolio_prices = EmptyMap
    /\ rebalance_target = <<>>
    /\ order_id_queue = <<>>
    /\ order_manager = {}
    /\ rb_pc = "idle"
    /\ rb_orders = <<>>
    /\ rb_oid = NoOid
    /\ rb_exc = "none"
    /\ evt_exc = "none"
    /\ app = "running"
    /\ id_requests = 0
    /\ next_id = 1
    /\ broker = EmptyMap
    /\ cancel_sent = [o \in Oids |-> 0]
    /\ refreshes = [o \in Oids |-> 0]
    /\ h = OMResult("none", NoSc, FALSE, NoOid, "")

\* what a call on the book alone leaves as it is
OMFrame ==
    UNCHANGED <<armed, acct_state, price_watchers, portfolio, portfolio_prices,
                rebalance_target, order_id_queue, rb_pc, rb_orders, rb_oid, rb_exc,
                evt_exc, app, id_requests, next_id, broker, cancel_sent, refreshes>>

OMEnter(sc, oid) ==
    /\ oid \in FreshOids
    /\ LET r == OM_enter_order(order_manager, sc, oid, BookOrder) IN
       /\ order_manager' = r.om
       /\ h' = OMResult("enter", sc, r.ret, oid, "")
    /\ OMFrame

OMTransmit(sc) ==
    /\ LET r == OM_transmit_order(order_manager, sc) IN
       /\ order_manager' = r.om
       /\ h' = OMResult("transmit", sc, r.ret, NoOid, "")
    /\ OMFrame

OMFinalize(sc) ==
    /\ LET r == OM_finalize_order(order_manager, sc) IN
       /\ order_manager' = r.om
       /\ h' = OMResult("finalize", sc, r.ret, NoOid, "")
    /\ OMFrame

OMClear(sc) ==
    /\ LET r == OM_clear_untransmitted(order_manager, sc) IN
       /\ order_manager' = r.om
       /\ h' = OMResult("clear", sc, r.ret # NoOid, r.ret, "")
    /\ OMFrame

OMStateOf(sc) ==
    /\ LET r == OM_get_state(order_manager, sc) IN
       /\ order_manager' = r.om
       /\ h' = OMResult("state", sc, TRUE, NoOid, r.ret)
    /\ OMFrame

\* safe_place_order from clear_any_untransmitted_order on, with a fresh id
OMSafePlace(sc, oid) ==
    /\ oid \in FreshOids
    /\ LET st == ClearAnyUntransmittedOrder(St, sc)
           r == OM_enter_order(st.om, sc, oid, BookOrder)
           placed == PlaceAfterEnter(r.ret) = "send"
       IN  /\ order_manager' = r.om
           /\ cancel_sent' = st.cancels
           /\ broker' = IF placed
                        THEN st.broker @@ (oid :> [sc |-> sc, order |-> BookOrder,
                                                   status |-> "live"])
                        ELSE st.broker
           /\ h' = OMResult("place", sc, placed, oid, "")
    /\ UNCHANGED <<armed, acct_state, price_watchers, portfolio, portfolio_prices,
                   rebalance_target, order_id_queue, rb_pc, rb_orders, rb_oid, rb_exc,
                   evt_exc, app, id_requests, next_id, refreshes>>

\* dt seconds pass: no timer touches the book
OMTick(dt) ==
    /\ order_manager' =
           {IF e.state = "COOLOFF" THEN [e EXCEPT !.age = Older(@, dt, ORDER_COOLOFF + 1)]
            ELSE e : e \in order_manager}
    /\ h' = OMResult("tick", NoSc, FALSE, NoOid, "")
    /\ OMFrame

NextOM ==
    \/ \E sc \in Contracts, oid \in Oids : OMEnter(sc, oid)
    \/ \E sc \in Contracts : OMTransmit(sc)
    \/ \E sc \in Contracts : OMFinalize(sc)
    \/ \E sc \in Contracts : OMClear(sc)
    \/ \E sc \in Contracts : OMStateOf(sc)
    \/ \E sc \in Contracts, oid \in Oids : OMSafePlace(sc, oid)
    \/ \E dt \in CooloffSteps : OMTick(dt)
    \/ \E oid \in Oids : OpenOrder(oid)
    \/ \E oid \in Oids : OrderStatus(oid)
    \/ \E oid \in Oids : BrokerFill(oid)
    \/ \E oid \in Oids : BrokerCancel(oid)

SpecOM == InitOM /\ [][NextOM]_vars

---------------------------------------------------------------------------
(* Properties *)

\* the outcome of validate expected of a value in the tier "block", "confirm",
\* "notify" or "none"
TierOutcome(tier, val, ans, res) ==
    CASE tier = "block" -> res.raised /\ res.prompts = 0
      [] tier = "confirm" -> /\ res.prompts = 1
                             /\ res.raised <=> (ans # "YES")
                             /\ ~res.raised => res.ret = val
      [] tier = "notify" -> /\ ~res.raised /\ res.ret = val
                            /\ res.prompts = 0 /\ res.log = <<"INFO">>
      [] tier = "none" -> /\ ~res.raised /\ res.ret = val
                          /\ res.prompts = 0 /\ res.log = <<"DEBUG">>

\* C5: validate answers by tier.  On a maximum rule a value above block
\* raises without a prompt; above confirm (not above block) it prompts once
\* and raises unless the reply is exactly YES, else returns the value; above
\* notify (not above confirm) it returns the value and logs at info; any
\* other value returns the value and logs at debug.  With 0.80 / 0.60 / 0.40:
\* 0.85 raises, 0.70 prompts, 0.50 logs info, 0.10 logs debug.  A minimum
\* rule is the mirror image with "less than".
C5_ValidateTiers ==
    h.pc = "done" =>
        LET r == h.rule
            v == h.val
            tier == IF r.kind = "max"
                    THEN IF v > r.block THEN "block"
                         ELSE IF v > r.confirm THEN "confirm"
                         ELSE IF v > r.notify THEN "notify" ELSE "none"
                    ELSE IF v < r.block THEN "block"
                         ELSE IF v < r.confirm THEN "confirm"
                         ELSE IF v < r.notify THEN "notify" ELSE "none"
        IN  /\ TierOutcome(tier, v, h.ans, h.res)
            /\ r = MARGIN_USAGE /\ v = 85 => h.res.raised /\ h.res.prompts = 0
            /\ r = MARGIN_USAGE /\ v = 70 => h.res.prompts = 1
            /\ r = MARGIN_USAGE /\ v = 50 => h.res.log = <<"INFO">>
            /\ r = MARGIN_USAGE /\ v = 10 => h.res.log = <<"DEBUG">>

\* a value in the confirm tier of a maximum rule was confirmed and returned
C5_Witness ==
    /\ h.pc = "done"
    /\ h.rule = MARGIN_USAGE
    /\ h.val = 70
    /\ h.ans = "YES"
    /\ ~h.res.raised
    /\ h.res.ret = 70

---------------------------------------------------------------------------
(* The order book and order placement *)

\* the unexpired entries of an instrument, as an access to it finds them
Tracked(om, sc) == EntriesOf(Purge(om, sc), sc)

\* the instrument of the order safe_place_order is placing
PlacingSc == rb_orders[1].sc

C1_OneEntry == \A sc \in Contracts : Cardinality(EntriesOf(order_manager, sc)) <= 1

\* a step of enter_order in safe_place_order for an instrument with an entry
C1_RejectedEnter ==
    (rb_pc = "enter" /\ rb_pc' # "enter" /\ Tracked(order_manager, PlacingSc) # {}) =>
        /\ EntriesOf(order_manager', PlacingSc) = Tracked(order_manager, PlacingSc)
        /\ rb_pc' # "send"
        /\ broker' = broker
        /\ \A e \in order_manager' : e.oid # rb_oid

\* C1: the Order Manager holds at most one entry per instrument, and an
\* enter for an instrument that has an entry (PENDING, TRANSMITTED or
\* unexpired COOLOFF) is refused: the entry keeps its order id, order and
\* state, and safe_place_order returns without a placeOrder call.
C1_SingleEntry == []C1_OneEntry /\ [][C1_RejectedEnter]_vars

\* safe_place_order has returned after a refused enter: the order id it took
\* is in no entry and was never placed
C1_Witness ==
    /\ app = "running"
    /\ rb_pc \in {"idle", "place"}
    /\ rb_oid # NoOid
    /\ rb_oid \notin DOMAIN broker
    /\ \A e \in order_manager : e.oid # rb_oid
    /\ \E e \in order_manager : e.state \in {"TRANSMITTED", "COOLOFF"}

\* the orders of an instrument that are live at the broker
LiveOrders(sc) ==
    {o \in DOMAIN broker : broker[o].sc = sc /\ broker[o].status \in {"live", "pendingcancel"}}

\* C2: at the broker at most one order placed by this process is live
\* (placed and neither filled, cancelled nor expired) per instrument, at any
\* time and under every interleaving of the rebalance thread with the
\* callbacks.
C2_OneLiveOrder == \A sc \in Contracts : Cardinality(LiveOrders(sc)) <= 1

\* clear_untransmitted on the book as it is, for every instrument: only a
\* PENDING entry is removed and its order id returned, once
C3_ClearOperation ==
    \A sc \in Contracts :
        LET r == OM_clear_untransmitted(order_manager, sc)
            again == OM_clear_untransmitted(r.om, sc)
            pending == {e \in Tracked(order_manager, sc) : e.state = "PENDING"}
        IN  /\ again.ret = NoOid
            /\ IF pending = {}
               THEN /\ r.ret = NoOid
                    /\ EntriesOf(r.om, sc) = Tracked(order_manager, sc)
               ELSE /\ \E e \in pending : r.ret = e.oid
                    /\ EntriesOf(r.om, sc) = {}

\* the step of safe_place_order that calls clear_any_untransmitted_order
C3_ClearStep ==
    (rb_pc = "wait_id" /\ rb_pc' = "enter") =>
        LET sc == PlacingSc
            pending == {e \in Tracked(order_manager, sc) : e.state = "PENDING"}
        IN  IF pending = {}
            THEN /\ cancel_sent' = cancel_sent
                 /\ broker' = broker
                 /\ EntriesOf(order_manager', sc) = Tracked(order_manager, sc)
            ELSE /\ EntriesOf(order_manager', sc) = {}
                 /\ \E e \in pending :
                        cancel_sent' = [cancel_sent EXCEPT ![e.oid] = @ + 1]

\* C3: clear_untransmitted on an instrument whose entry is TRANSMITTED or
\* COOLOFF, or that has no entry, returns nothing and leaves the entry as it
\* is, and no cancel is sent; on a PENDING entry it removes the entry and
\* returns its order id; a second call returns nothing, so that the cancel of
\* an order id is sent at most once.
C3_ClearUntransmitted ==
    /\ [](C3_ClearOperation /\ \A o \in Oids : cancel_sent[o] <= 1)
    /\ [][C3_ClearStep]_vars

\* safe_place_order has just retracted the PENDING order of the instrument
\* it is placing: one cancel is out for it and the instrument has no entry
C3_Witness ==
    /\ rb_pc = "enter"
    /\ EntriesOf(order_manager, PlacingSc) = {}
    /\ \E o \in DOMAIN broker :
          /\ broker[o].sc = PlacingSc
          /\ cancel_sent[o] = 1
          /\ broker[o].status = "pendingcancel"

\* what audit_order demands of an order
AuditConditions(order) ==
    /\ order.orderType = "MIDPRICE"
    /\ ~order.outsideRth
    /\ (armed \/ ~order.transmit)

\* C4: every order handed to placeOrder carries the audited marker, and the
\* marker is set only on a MIDPRICE order that does not route outside regular
\* trading hours and that has transmit = false unless the process is armed;
\* while the process is not armed no order with transmit = true is placed.
C4_AuditedOrders ==
    /\ \A o \in DOMAIN broker :
          /\ broker[o].order.audited
          /\ AuditConditions(broker[o].order)
          /\ ~armed => ~broker[o].order.transmit
    /\ \A order \in OrderSpace :
          AuditOrder(order).order.audited => AuditConditions(order)
    /\ \A i \in 1..Len(rb_orders) :
          rb_orders[i].order.audited /\ AuditConditions(rb_orders[i].order)

\* an unarmed process has placed an order: it is audited and not transmitted
C4_Witness ==
    /\ ~armed
    /\ \E o \in DOMAIN broker : broker[o].order.audited /\ ~broker[o].order.transmit

---------------------------------------------------------------------------
(* Liveness of the data *)

PriceStale(sc) ==
    \/ sc \notin DOMAIN portfolio_prices
    \/ portfolio_prices[sc].age >= MAX_PRICING_AGE

AcctStale == ~acct_state.set \/ acct_state.age >= MAX_ACCT_SUM_AGE

\* C6: is_live is false whenever one instrument of the target composition
\* has no price sample or one whose age is at or beyond the pricing
\* threshold, whatever the other samples and the account snapshot are; and
\* whenever there is no account snapshot or its age is at or beyond its
\* threshold.
C6_StaleNotLive ==
    /\ (\E sc \in Contracts : PriceStale(sc)) => ~is_live
    /\ AcctStale => ~is_live

\* one price is at the threshold while the other price and the account
\* snapshot are fresh
C6_Witness ==
    /\ acct_state.set /\ acct_state.age = 0
    /\ "A" \in DOMAIN portfolio_prices /\ portfolio_prices["A"].age = 0
    /\ "B" \in DOMAIN portfolio_prices /\ portfolio_prices["B"].age = MAX_PRICING_AGE
    /\ ~is_live

---------------------------------------------------------------------------
(* A rebalance iteration *)

\* check_if_needs_rebalance for an instrument under the solver's answer M
NeedsAction(sc, M) == NeedsRebalance(portfolio_prices[sc].c, portfolio[sc], M[sc])

\* the order expected for an instrument under the solver's answer M
ExpectedOrder(sc, M) ==
    [sc |-> sc,
     order |-> [orderType |-> "MIDPRICE", transmit |-> armed, outsideRth |-> FALSE,
                action |-> IF M[sc] > portfolio[sc] THEN "BUY" ELSE "SELL",
                totalQuantity |-> Abs(M[sc] - portfolio[sc]), audited |-> TRUE]]

\* the iteration of the worker with the solver's answer M
IterationWith(M) == \E answers \in PromptReplies : RebalanceIterate(M, answers)

ScenarioHoldings == [sc \in Contracts |-> IF sc = "A" THEN 100 ELSE 0]

ScenarioAlloc == [sc \in Contracts |-> 50]

C7_Iteration ==
    \A M \in [Contracts -> AllocValues] :
        (IterationWith(M) /\ DOMAIN portfolio = Contracts) =>
            /\ \A sc \in Contracts :
                  NeedsAction(sc, M) =>
                      Cardinality({i \in 1..Len(rb_orders') : rb_orders'[i].sc = sc}) = 1
                      /\ \E i \in 1..Len(rb_orders') : rb_orders'[i] = ExpectedOrder(sc, M)
            /\ (portfolio = ScenarioHoldings /\ M = ScenarioAlloc) =>
                  /\ rb_exc' = "none"
                  /\ rb_orders' = <<ExpectedOrder("A", M), ExpectedOrder("B", M)>>
                  /\ ~Validate(ORDER_TOTAL, 1000, "no").raised

\* C7: in a live iteration every instrument that needs action, one whose
\* current or ideal holding is 0 included, gets exactly one audited order of
\* quantity |ideal - current|, BUY when ideal > current and SELL otherwise;
\* with holdings A = 100, B = 0, prices 10 and the solver's answer 50 / 50
\* the iteration completes with the orders sell 50 A and buy 50 B, the
\* total 1000 passing the order-total rule.
C7_OneOrderPerInstrument == [][C7_Iteration]_vars

\* the position of an instrument in the composition
IndexOf(sc) == CHOOSE i \in 1..Len(ContractSeq) : ContractSeq[i] = sc

\* the division of the log line fails for an instrument under M
DivisionFails(sc, M) ==
    M[sc] # portfolio[sc] /\ (portfolio[sc] = 0 \/ M[sc] = 0)

\* the loop of the iteration gets as far as deciding on instrument sc
Decides(sc, M) ==
    /\ DOMAIN portfolio = Contracts
    /\ DrawdownInRange
    /\ \A j \in 1..(IndexOf(sc) - 1) : ~DivisionFails(ContractSeq[j], M)

\* the PENDING entries of the instruments that need no action under M
Retracted(M) ==
    {e \in order_manager :
        e.state = "PENDING" /\ Decides(e.sc, M) /\ ~NeedsAction(e.sc, M)}

C8_Iteration ==
    \A M \in [Contracts -> AllocValues] :
        IterationWith(M) =>
            /\ \A e \in Retracted(M) :
                  /\ e.sc \notin DictKeys(rebalance_target')
                  /\ EntriesOf(order_manager', e.sc) = {}
                  /\ cancel_sent'[e.oid] = cancel_sent[e.oid] + 1
                  /\ \A i \in 1..Len(rb_orders') : rb_orders'[i].sc # e.sc
            /\ \A o \in Oids :
                  cancel_sent'[o] # cancel_sent[o] => \E e \in Retracted(M) : e.oid = o

\* C8: when an instrument has a PENDING entry and a live iteration finds
\* that it needs no action, the iteration removes the instrument's recorded
\* target and its PENDING entry, sends a cancel for that order id and for no
\* other, creates no entry and builds no order for the instrument.
C8_RetractOnNoAction == [][C8_Iteration]_vars

\* the iteration has retracted an order: the last order id the worker took
\* is cancelled once, its instrument has neither entry nor target, and the
\* worker is between iterations
C8_Witness ==
    /\ app = "running"
    /\ rb_pc = "idle"
    /\ rb_exc = "none"
    /\ rb_oid \in DOMAIN broker
    /\ cancel_sent[rb_oid] = 1
    /\ EntriesOf(order_manager, broker[rb_oid].sc) = {}
    /\ broker[rb_oid].sc \notin DictKeys(rebalance_target)

---------------------------------------------------------------------------
(* Order status callbacks *)

\* the entry that tracks an order id, if it has not expired
EntryOf(oid) ==
    {e \in order_manager :
        e.oid = oid /\ ~(e.state = "COOLOFF" /\ e.age > ORDER_COOLOFF)}

C9_FilledStep ==
    \A oid \in Oids :
        (/\ OrderStatus(oid)
         /\ StatusOf(broker[oid]) = "Filled"
         /\ \E e \in EntryOf(oid) : e.state = "TRANSMITTED") =>
            /\ \E e \in EntryOf(oid) :
                  order_manager' = (order_manager \ {e}) \cup
                                   {[e EXCEPT !.state = "COOLOFF", !.age = 0]}
            /\ refreshes' = [refreshes EXCEPT ![oid] = @ + 1]
            /\ evt_exc' = "none"

C9_OncePerFill ==
    \A oid \in Oids :
        /\ refreshes[oid] <= 1
        /\ refreshes[oid] = 1 => oid \in DOMAIN broker /\ broker[oid].status = "filled"
        /\ \A e \in EntryOf(oid) :
              (e.state = "COOLOFF" /\ refreshes[oid] = 1) =>
                  \A status \in StatusStrings :
                      OrderStatusEffect(order_manager, oid, status).refresh = 0

\* C9: a "Filled" status for an order whose entry is TRANSMITTED moves the
\* entry to COOLOFF and requests the positions once; no later status
\* callback for that order, a repeated "Filled" included, requests them
\* again.
C9_FilledRefreshesOnce == []C9_OncePerFill /\ [][C9_FilledStep]_vars

\* a fill has been processed: the entry is in COOLOFF and the positions
\* were requested once, and the broker still reports the order as filled
C9_Witness ==
    \E oid \in DOMAIN broker :
        /\ broker[oid].status = "filled"
        /\ refreshes[oid] = 1
        /\ \E e \in EntryOf(oid) : e.state = "COOLOFF"
        /\ evt_exc = "none" /\ app = "running"

C10_Dropped ==
    \A e \in order_manager :
        (e.state = "COOLOFF" /\ e.age <= ORDER_COOLOFF) =>
            \A status \in StatusStrings :
                OrderStatusEffect(order_manager, e.oid, status) =
                    [exc |-> "none", om |-> order_manager, refresh |-> 0]

C10_DropStep ==
    \A oid \in Oids :
        (OrderStatus(oid) /\ \E e \in EntryOf(oid) : e.state = "COOLOFF") =>
            /\ order_manager' = order_manager
            /\ refreshes' = refreshes
            /\ evt_exc' = "none"

\* C10: a status callback for an order whose entry is in COOLOFF is dropped:
\* the entry keeps its state and its cooloff timestamp, no position refresh
\* is requested and no error is raised, whatever the status string and
\* however often it arrives.
C10_CooloffDrops == []C10_Dropped /\ [][C10_DropStep]_vars

\* an order cancelled at the broker is in COOLOFF with the event thread
\* alive: a further callback for it finds the entry in COOLOFF
C10_Witness ==
    \E oid \in DOMAIN broker :
        /\ broker[oid].status = "cancelled"
        /\ \E e \in EntryOf(oid) : e.state = "COOLOFF" /\ e.age = 0
        /\ evt_exc = "none" /\ app = "running"

---------------------------------------------------------------------------
(* The operations of the Order Manager *)

\* the entries of an instrument in a given state, as an access finds them
InState(sc, state) == {e \in Tracked(order_manager, sc) : e.state = state}

C11_TransmitCall ==
    \A sc \in Contracts :
        OMTransmit(sc) =>
            /\ InState(sc, "PENDING") # {} =>
                  /\ h'.ok
                  /\ EntriesOf(order_manager', sc) =
                        {[e EXCEPT !.state = "TRANSMITTED"] : e \in InState(sc, "PENDING")}
            /\ InState(sc, "TRANSMITTED") # {} =>
                  /\ h'.ok
                  /\ order_manager' = order_manager

C11_Acknowledged ==
    \A oid \in Oids :
        (/\ OrderStatus(oid)
         /\ StatusOf(broker[oid]) \in {"Submitted", "PendingCancel"}
         /\ \E e \in EntryOf(oid) : e.state \in {"PENDING", "TRANSMITTED"}) =>
            /\ evt_exc' = "none"
            /\ \E e \in EntryOf(oid) :
                  order_manager' = (order_manager \ {e}) \cup
                                   {[e EXCEPT !.state = "TRANSMITTED"]}

\* C11: transmit moves a PENDING entry to TRANSMITTED and returns true; on
\* an entry that is TRANSMITTED already it returns true and changes nothing,
\* so a status callback finds or makes the entry TRANSMITTED whichever of the
\* acknowledgment and the local call came first.
C11_TransmitIdempotent == [][C11_TransmitCall /\ C11_Acknowledged]_vars

\* transmit has returned true for an instrument whose order the broker
\* holds, and the entry is TRANSMITTED
C11_Witness ==
    /\ h.op = "transmit" /\ h.ok
    /\ \E e \in EntriesOf(order_manager, h.sc) :
          e.state = "TRANSMITTED" /\ e.oid \in DOMAIN broker

C12_FinalizeCall ==
    \A sc \in Contracts :
        OMFinalize(sc) =>
            /\ InState(sc, "TRANSMITTED") # {} =>
                  /\ h'.ok
                  /\ EntriesOf(order_manager', sc) =
                        {[e EXCEPT !.state = "COOLOFF", !.age = 0]
                            : e \in InState(sc, "TRANSMITTED")}
            /\ InState(sc, "COOLOFF") # {} =>
                  order_manager' = order_manager

C12_TerminalEvent ==
    \A oid \in Oids :
        (/\ OrderStatus(oid)
         /\ StatusOf(broker[oid]) \in {"Filled", "Cancelled"}) =>
            /\ \A e \in EntryOf(oid) :
                  e.state = "TRANSMITTED" =>
                      order_manager' = (order_manager \ {e}) \cup
                                       {[e EXCEPT !.state = "COOLOFF", !.age = 0]}
            /\ \A e \in EntryOf(oid) :
                  e.state = "COOLOFF" => order_manager' = order_manager

\* C12: finalize moves a TRANSMITTED entry to COOLOFF and stamps the start
\* of the quiet period; on an entry in COOLOFF it changes neither the state
\* nor the stamped time, so a repeated terminal event does not extend the
\* quiet period.
C12_FinalizeIdempotent == [][C12_FinalizeCall /\ C12_TerminalEvent]_vars

\* finalize was called on an entry part-way through its quiet period, and
\* the entry still carries the time stamped before
C12_Witness ==
    /\ h.op = "finalize" /\ ~h.ok
    /\ \E e \in EntriesOf(order_manager, h.sc) :
          e.state = "COOLOFF" /\ e.age > 0 /\ e.age <= ORDER_COOLOFF

\* the COOLOFF entries of an instrument as they are stored, expired or not
Cooling(sc) == {e \in EntriesOf(order_manager, sc) : e.state = "COOLOFF"}

C13_Admission ==
    \A sc \in Contracts, oid \in Oids :
        (OMEnter(sc, oid) \/ OMSafePlace(sc, oid)) =>
            /\ (\E e \in Cooling(sc) : e.age <= ORDER_COOLOFF) =>
                  /\ ~h'.ok
                  /\ order_manager' = order_manager
                  /\ broker' = broker
            /\ (\E e \in Cooling(sc) : e.age > ORDER_COOLOFF) =>
                  /\ h'.ok
                  /\ EntriesOf(order_manager', sc) =
                        {[sc |-> sc, oid |-> oid, order |-> BookOrder,
                          state |-> "PENDING", age |-> 0]}

C13_Access ==
    \A sc \in Contracts :
        (OMStateOf(sc) /\ \E e \in Cooling(sc) : e.age > ORDER_COOLOFF) =>
            h'.state = "UNTRACKED" /\ EntriesOf(order_manager', sc) = {}

C13_NoTimer ==
    \A dt \in CooloffSteps :
        OMTick(dt) =>
            {<<e.sc, e.oid, e.state>> : e \in order_manager'} =
            {<<e.sc, e.oid, e.state>> : e \in order_manager}

\* C13: after a finalize no order is admitted or placed for the instrument
\* until strictly more than ORDER_COOLOFF seconds have passed; from then on
\* the next access finds the instrument untracked and an enter succeeds.
\* The passing of time alone removes no entry.
C13_QuietPeriod == [][C13_Admission /\ C13_Access /\ C13_NoTimer]_vars

\* a placement was refused exactly ORDER_COOLOFF seconds after the finalize
C13_Witness ==
    /\ h.op = "place" /\ ~h.ok
    /\ \E e \in EntriesOf(order_manager, h.sc) :
          e.state = "COOLOFF" /\ e.age = ORDER_COOLOFF

---------------------------------------------------------------------------
(* Iterations that do nothing *)

\* the data the iteration needs is incomplete or too old
NotLive == AcctStale \/ \E sc \in Contracts : PriceStale(sc)

\* the entries of the book without the time they have spent in COOLOFF
BookEntries(om) == {<<e.sc, e.oid, e.state, e.order>> : e \in om}

\* a step taken while the rebalance thread is between iterations and the
\* system is not live: the callbacks and the clock may act, the iteration
\* changes nothing
C14_SkipStep ==
    (RebalanceThreadRuns /\ rb_pc = "idle" /\ NotLive) =>
        /\ rb_pc' = "idle" /\ rb_exc' = "none"
        /\ rebalance_target' = rebalance_target
        /\ rb_orders' = rb_orders
        /\ id_requests' = id_requests
        /\ DOMAIN broker' = DOMAIN broker
        /\ app' = "running" => cancel_sent' = cancel_sent
        /\ (/\ app' = "running"
            /\ \A oid \in Oids : ~OpenOrder(oid) /\ ~OrderStatus(oid)) =>
               BookEntries(order_manager') = BookEntries(order_manager)

\* C14: a rebalance iteration that starts while the system is not live (no
\* account snapshot or a stale one, a missing or stale price for a target
\* instrument) returns without raising and without side effect: no order is
\* placed or cancelled, no order id requested, the rebalance targets and the
\* Order Manager entries stay as they are.
C14_NotLiveNoEffect == [][C14_SkipStep]_vars

\* an iteration is due while the account snapshot is stale, with a target
\* recorded and a PENDING entry in the book
C14_Witness ==
    /\ RebalanceThreadRuns /\ rb_pc = "idle" /\ ~is_live
    /\ AcctStale
    /\ rebalance_target # <<>>
    /\ \E e \in order_manager : e.state = "PENDING"

\* the worker is never left by PortfolioSolverError: a worker that has
\* raised, or has died of it, carries another exception
C18_Suppressed ==
    /\ rb_exc # "PortfolioSolverError"
    /\ rb_pc \in {"raised", "dead"} => rb_exc # "none"

\* the iteration in which the solver finds no feasible allocation
C18_InfeasibleStep ==
    RebalanceInfeasible =>
        /\ rebalance_target' = rebalance_target
        /\ order_manager' = order_manager
        /\ broker' = broker
        /\ cancel_sent' = cancel_sent
        /\ id_requests' = id_requests
        /\ app' = "running"
        /\ rb_pc' = "idle" /\ rb_exc' = "none"

---------------------------------------------------------------------------
(* The entry point: arb_entrypoint around execute.  h holds the position of
   the main thread (inside execute of an application, or back in the loop of
   the entry point) and the number of applications constructed so far.      *)

InitEntry ==
    /\ armed \in BOOLEAN
    /\ acct_state = [set |-> FALSE, age |-> 0]
    /\ price_watchers = EmptyMap
    /\ portfolio = EmptyMap
    /\ portfolio_prices = EmptyMap
    /\ rebalance_target = <<>>
    /\ order_id_queue = <<>>
    /\ order_manager = {}
    /\ rb_pc = "idle"
    /\ rb_orders = <<>>
    /\ rb_oid = NoOid
    /\ rb_exc = "none"
    /\ evt_exc = "none"
    /\ app = "running"
    /\ id_requests = 0
    /\ next_id = 1
    /\ broker = EmptyMap
    /\ cancel_sent = [o \in Oids |-> 0]
    /\ refreshes = [o \in Oids |-> 0]
    /\ h = [pc |-> "execute", runs |-> 1]

\* the main thread leaves execute: the worker has ended, join returns, the
\* finally clause of execute has run shut_down, and sys.exit(-1) raises
\* SystemExit in the main thread; the finally clause of arb_entrypoint is
\* `continue`, which discards the exception in flight and goes back to the
\* head of the loop
EntryFinally ==
    /\ h.pc = "execute"
    /\ app = "stopped"
    /\ rb_pc = "dead"
    /\ h' = [h EXCEPT !.pc = "loop"]
    /\ UNCHANGED <<armed, acct_state, price_watchers, portfolio, portfolio_prices,
                   rebalance_target, order_id_queue, order_manager, rb_pc,
                   rb_orders, rb_oid, rb_exc, evt_exc, app, id_requests, next_id,
                   broker, cancel_sent, refreshes>>

\* the loop of arb_entrypoint inside market hours: AutorebalanceApp().execute()
\* with a new application object; the orders at the broker and the broker's
\* order ids are those of the session before
EntryStart ==
    /\ h.pc = "loop"
    /\ h.runs < MaxRuns
    /\ h' = [pc |-> "execute", runs |-> h.runs + 1]
    /\ acct_state' = [set |-> FALSE, age |-> 0]
    /\ price_watchers' = EmptyMap
    /\ portfolio' = EmptyMap
    /\ portfolio_prices' = EmptyMap
    /\ rebalance_target' = <<>>
    /\ order_id_queue' = <<>>
    /\ order_manager' = {}
    /\ rb_pc' = "idle"
    /\ rb_orders' = <<>>
    /\ rb_oid' = NoOid
    /\ rb_exc' = "none"
    /\ evt_exc' = "none"
    /\ app' = "running"
    /\ id_requests' = 0
    /\ UNCHANGED <<armed, next_id, broker, cancel_sent, refreshes>>

NextEntry ==
    \/ AccountSummaryEnd
    \/ \E pos_data \in PosBatches : PositionEnd(pos_data)
    \/ \E req_id \in PORTFOLIO_PRICE_REQ_ID..(PORTFOLIO_PRICE_REQ_ID + Len(ContractSeq)),
          bar_age \in BarAges, c \in Prices : RealtimeBar(req_id, bar_age, c)
    \/ NextValidId
    \/ \E model_alloc \in [Contracts -> AllocValues], answers \in PromptReplies :
          RebalanceIterate(model_alloc, answers)
    \/ PlaceRequestId
    \/ PlaceTakeId
    \/ PlaceEnter
    \/ PlaceSend
    \/ WorkerCrash
    \/ EntryFinally
    \/ EntryStart

SpecEntry == InitEntry /\ [][NextEntry]_vars

\* shut_down as the main thread runs it: every PENDING entry retracted
C15_Retracted ==
    (app = "stopped" /\ rb_pc = "dead") =>
        \A e \in order_manager : e.state # "PENDING"

\* once shut down, the process is over: no application runs again and the
\* entry point does not go on
C15_Final == (app = "stopped") => (app' = "stopped" /\ h' = h)

\* C15: every shutdown path retracts the PENDING entry of every target
\* instrument and cancels its order, disconnects and terminates the process
\* with a non-zero exit status; after shutdown no target instrument has a
\* PENDING entry and the process neither keeps running nor restarts.
C15_ShutdownTerminates == []C15_Retracted /\ [][C15_Final]_vars

---------------------------------------------------------------------------
(* The order of the steps of a placement *)

\* the fresh order id is requested only once the instrument's PENDING entry
\* has been retracted
C16_RetractBeforeRequest ==
    (rb_pc = "place" /\ rb_pc' = "wait_id") =>
        \A e \in EntriesOf(order_manager, PlacingSc) : e.state # "PENDING"

\* placeOrder is issued for an order id the book has admitted
C16_AdmittedBeforeSend ==
    (RebalanceThreadRuns /\ rb_pc = "send") =>
        \E e \in EntriesOf(order_manager, PlacingSc) : e.oid = rb_oid

\* C16: a placement first retracts the instrument's PENDING entry, then
\* requests a fresh order id and waits for the reply, then admits the new
\* entry (giving up if admission fails), and only then calls placeOrder.
C16_PlacementOrder == []C16_AdmittedBeforeSend /\ [][C16_RetractBeforeRequest]_vars

---------------------------------------------------------------------------
(* The log lines of validate *)

\* C19: every call of validate makes exactly one log line, on every path:
\* block, confirm accepted, confirm declined, notify and below notify.
C19_OneLogLine == h.pc = "done" => Len(h.res.log) = 1

---------------------------------------------------------------------------
(* Unexpected events *)

\* the full shutdown has been carried out by the step
ShutDownDone ==
    /\ app' = "stopped"
    /\ \A e \in order_manager' : e.state # "PENDING"

\* a price bar for a subscription id that is not a registered price watcher
C20_UnknownBar ==
    \A req_id \in PORTFOLIO_PRICE_REQ_ID..(PORTFOLIO_PRICE_REQ_ID + Len(ContractSeq)),
       bar_age \in BarAges, c \in Prices :
        (RealtimeBar(req_id, bar_age, c) /\ req_id \notin DOMAIN price_watchers) =>
            ShutDownDone

\* an order status for an order id the Order Manager does not know
C20_UnknownOrder ==
    \A oid \in Oids :
        (OrderStatus(oid) /\ OM_get_nc(order_manager, oid) = NoSc) => ShutDownDone

\* C20: an unexpected event triggers the full shutdown (retract the unsent
\* orders, disconnect, exit), both a price bar whose subscription id is not
\* a registered price watcher and an order status whose order id the Order
\* Manager does not know.
C20_AnomalyShutsDown == [][C20_UnknownBar /\ C20_UnknownOrder]_vars

---------------------------------------------------------------------------
(* The risk rules in an iteration: the application with holdings, prices and
   solver answers large enough to reach every tier of the order-quantity and
   order-total rules, without the order callbacks.                           *)

RiskHoldings == {100}

RiskAllocs == {100, 200, 350, 400}

RiskPrices == {10, 101}

NextRisk ==
    \/ AccountSummaryEnd
    \/ \E pos_data \in [Contracts -> RiskHoldings] : PositionEnd(pos_data)
    \/ \E req_id \in PORTFOLIO_PRICE_REQ_ID..(PORTFOLIO_PRICE_REQ_ID + Len(ContractSeq)),
          bar_age \in BarAges, c \in RiskPrices : RealtimeBar(req_id, bar_age, c)
    \/ NextValidId
    \/ \E model_alloc \in [Contracts -> RiskAllocs], answers \in PromptReplies :
          RebalanceIterate(model_alloc, answers)
    \/ PlaceRequestId
    \/ PlaceTakeId
    \/ PlaceEnter
    \/ PlaceSend
    \/ WorkerCrash

SpecRisk == Init /\ [][NextRisk]_vars

\* the aggregate notional of the orders for the rebalance targets rt
RECURSIVE TotalOf(_, _)
TotalOf(rt, i) ==
    IF i > Len(rt) THEN 0
    ELSE portfolio_prices[rt[i].sc].c * Abs(rt[i].num) + TotalOf(rt, i + 1)

\* a rule stops the iteration whose targets are rt: it blocks, or it asks
\* and the reply is not YES
Stopped(rt, answers) ==
    \/ \E i \in 1..Len(rt) : Validate(ORDER_QTY, Abs(rt[i].num), answers[i]).raised
    \/ Validate(ORDER_TOTAL, TotalOf(rt, 1), answers[Len(answers)]).raised

C17_Iteration ==
    \A M \in [Contracts -> RiskAllocs], answers \in PromptReplies :
        (RebalanceIterate(M, answers) /\ Stopped(rebalance_target', answers)) =>
            /\ rb_orders' = <<>>
            /\ rb_pc' = "raised"
            /\ order_manager' \subseteq order_manager
            /\ DOMAIN broker' = DOMAIN broker
            /\ id_requests' = id_requests

\* the orders of an iteration are placed only after construction has ended
\* without a fault
C17_PlacingUnfaulted ==
    (RebalanceThreadRuns /\ rb_pc \in {"place", "wait_id", "enter", "send"}) =>
        /\ rb_exc = "none"
        /\ rb_orders # <<>>

\* C17: the aggregate notional of the orders of an iteration goes through
\* the order-total rule before any of them is placed; if that rule, or the
\* order-quantity rule for any instrument, blocks or has its confirmation
\* declined, no order of the iteration is placed and no Order Manager entry
\* is created.
C17_RiskBeforePlacement == []C17_PlacingUnfaulted /\ [][C17_Iteration]_vars

\* an iteration was stopped by the order-total rule alone: no quantity is
\* large enough to prompt, the total is above the confirm level
C17_Witness ==
    /\ rb_exc = "SecurityFault"
    /\ rb_orders = <<>>
    /\ order_manager = {}
    /\ rebalance_target # <<>>
    /\ \A i \in 1..Len(rebalance_target) :
          Abs(rebalance_target[i].num) <= ORDER_QTY.confirm
    /\ TotalOf(rebalance_target, 1) > ORDER_TOTAL.confirm

---------------------------------------------------------------------------
(* The broker's error channel: the application with the error callback.  h
   holds the last error code received and the level it was logged at.       *)

\* PERMIT_ERROR, src/src/security.py
PERMIT_ERROR ==
    (202 :> "WARNING") @@ (504 :> "DEBUG") @@ (2103 :> "WARNING") @@
    (2104 :> "DEBUG") @@ (2106 :> "DEBUG") @@ (2108 :> "DEBUG") @@ (2158 :> "DEBUG")

\* the codes the broker sends: the catalogue, the pacing violation and two
\* codes outside the catalogue (order rejected, connectivity lost)
ErrorCodes == DOMAIN PERMIT_ERROR \cup {420, 201, 1100}

\* the mutant of ErrorOutcome: a code outside the catalogue is only logged
ErrorOutcomeLenient(error_code) ==
    IF error_code = 420 THEN [fatal |-> TRUE, level |-> "CRITICAL"]
    ELSE IF error_code \in DOMAIN PERMIT_ERROR
    THEN [fatal |-> FALSE, level |-> PERMIT_ERROR[error_code]]
    ELSE [fatal |-> FALSE, level |-> "WARNING"]

\* error: what the handler does with a code
ErrorOutcome(error_code) ==
    IF error_code = 420 THEN [fatal |-> TRUE, level |-> "CRITICAL"]
    ELSE IF error_code \in DOMAIN PERMIT_ERROR
    THEN [fatal |-> FALSE, level |-> PERMIT_ERROR[error_code]]
    ELSE [fatal |-> TRUE, level |-> "CRITICAL"]

InitError ==
    /\ armed \in BOOLEAN
    /\ acct_state = [set |-> FALSE, age |-> 0]
    /\ price_watchers = EmptyMap
    /\ portfolio = EmptyMap
    /\ portfolio_prices = EmptyMap
    /\ rebalance_target = <<>>
    /\ order_id_queue = <<>>
    /\ order_manager = {}
    /\ rb_pc = "idle"
    /\ rb_orders = <<>>
    /\ rb_oid = NoOid
    /\ rb_exc = "none"
    /\ evt_exc = "none"
    /\ app = "running"
    /\ id_requests = 0
    /\ next_id = 1
    /\ broker = EmptyMap
    /\ cancel_sent = [o \in Oids |-> 0]
    /\ refreshes = [o \in Oids |-> 0]
    /\ h = [pc |-> "error", code |-> 0, level |-> "none"]

\* error(req_id, error_code, error_string)
ErrorCallback(error_code) ==
    /\ EventThreadRuns
    /\ h' = [pc |-> "error", code |-> error_code,
             level |-> ErrorOutcome(error_code).level]
    /\ IF ErrorOutcome(error_code).fatal
       THEN KillApp
       ELSE UNCHANGED <<order_manager, cancel_sent, broker, app>>
    /\ UNCHANGED <<armed, acct_state, price_watchers, portfolio, portfolio_prices,
                   rebalance_target, order_id_queue, rb_pc, rb_orders, rb_oid,
                   rb_exc, evt_exc, id_requests, next_id, refreshes>>

NextError ==
    \/ AccountSummaryEnd
    \/ \E pos_data \in PosBatches : PositionEnd(pos_data)
    \/ \E req_id \in PORTFOLIO_PRICE_REQ_ID..(PORTFOLIO_PRICE_REQ_ID + Len(ContractSeq)),
          bar_age \in BarAges, c \in Prices : RealtimeBar(req_id, bar_age, c)
    \/ NextValidId
    \/ \E model_alloc \in [Contracts -> AllocValues], answers \in PromptReplies :
          RebalanceIterate(model_alloc, answers)
    \/ PlaceRequestId
    \/ PlaceTakeId
    \/ PlaceEnter
    \/ PlaceSend
    \/ WorkerCrash
    \/ \E error_code \in ErrorCodes : ErrorCallback(error_code)

SpecError == InitError /\ [][NextError]_vars

\* everything but the record of the last error
AppState ==
    <<armed, acct_state, price_watchers, portfolio, portfolio_prices,
      rebalance_target, order_id_queue, order_manager, rb_pc, rb_orders, rb_oid,
      rb_exc, evt_exc, app, id_requests, next_id, broker, cancel_sent, refreshes>>

C21_ErrorStep ==
    \A error_code \in ErrorCodes :
        ErrorCallback(error_code) =>
            IF error_code \in {202, 504, 2103, 2104, 2106, 2108, 2158}
            THEN /\ AppState' = AppState
                 /\ h'.level \in {"DEBUG", "INFO", "WARNING"}
            ELSE ShutDownDone

\* C21: on the error channel a code of the permitted catalogue is only
\* logged, at its non-fatal level, changes no application state and starts
\* no shutdown; every other code, the rate-limit code 420 among them,
\* triggers the full shutdown.
C21_ErrorChannel == [][C21_ErrorStep]_vars

\* a code outside the catalogue (order rejected) arrived while a PENDING
\* order was in the book and an order open at the broker: the application
\* has shut down and the order is retracted
C21_Witness ==
    /\ h.code = 201
    /\ app = "stopped"
    /\ broker # EmptyMap
    /\ \E o \in Oids : cancel_sent[o] > 0

---------------------------------------------------------------------------
(* Position batches: the application with batches that report any part of
   the composition and possibly a stock outside it.                         *)

\* the stocks the account can hold: the composition and one stock outside it
PositionKeys == Contracts \cup {"X"}

\* the batches position ... positionEnd can deliver
PositionBatches == UNION {[D -> Holdings] : D \in SUBSET PositionKeys}

NextPositions ==
    \/ AccountSummaryEnd
    \/ \E pos_data \in PositionBatches : PositionEnd(pos_data)
    \/ \E req_id \in PORTFOLIO_PRICE_REQ_ID..(PORTFOLIO_PRICE_REQ_ID + Len(ContractSeq)),
          bar_age \in BarAges, c \in Prices : RealtimeBar(req_id, bar_age, c)
    \/ NextValidId
    \/ \E model_alloc \in [Contracts -> AllocValues], answers \in PromptReplies :
          RebalanceIterate(model_alloc, answers)
    \/ PlaceRequestId
    \/ PlaceTakeId
    \/ PlaceEnter
    \/ PlaceSend
    \/ WorkerCrash

SpecPositions == Init /\ [][NextPositions]_vars

\* the instruments with a price subscription
Watched == {price_watchers[k] : k \in DOMAIN price_watchers}

C22_KnownKeys ==
    /\ Watched \subseteq Contracts
    /\ app = "running" => DOMAIN portfolio \subseteq Contracts

C22_BatchStep ==
    \A pos_data \in PositionBatches :
        (/\ PositionEnd(pos_data)
         /\ ~((DOMAIN portfolio \cup DOMAIN pos_data) \subseteq Contracts)) =>
            /\ ShutDownDone
            /\ price_watchers' = price_watchers

\* C22: when a completed position batch leaves the portfolio holding a
\* stock that is not a key of the target composition, the process shuts
\* down at once and subscribes to no price for it; while the process runs,
\* every key of the portfolio is a key of the composition, and no price
\* subscription is ever for an instrument outside the composition.
C22_UnknownInstrumentFatal == []C22_KnownKeys /\ [][C22_BatchStep]_vars

\* a batch reported the stock outside the composition while an order was
\* PENDING: the application has shut down and the order was retracted
C22_Witness ==
    /\ "X" \in DOMAIN portfolio
    /\ app = "stopped"
    /\ \E o \in Oids : cancel_sent[o] > 0

\* C28: whenever is_live is true the portfolio has been received and holds
\* every instrument of the target composition, and a price exists for each
\* of them, so a live iteration never reads a missing position or price.
C28_LiveHasPositions ==
    /\ is_live => /\ Contracts \subseteq DOMAIN portfolio
                  /\ Contracts \subseteq DOMAIN portfolio_prices
    /\ Watched \subseteq DOMAIN portfolio
    /\ rb_exc # "KeyError"

\* live after the instruments were reported by separate batches, the second
\* instrument of the composition first
C28_Witness ==
    /\ is_live
    /\ PORTFOLIO_PRICE_REQ_ID \in DOMAIN price_watchers
    /\ price_watchers[PORTFOLIO_PRICE_REQ_ID] = "B"
    /\ rb_pc = "send"

---------------------------------------------------------------------------
(* The target margin utilization on its own: read_config validates the two
   parameters of the curve, get_target_margin_use computes the target, and
   the account snapshot derives the loan from it.  Ratios are scaled by 100,
   the target (a sum of a ratio and a product of two ratios) by 10000.  h
   holds the inputs, the position in this sequence and the values computed. *)

ATH_MARGIN_USE == [kind |-> "max", block |-> 30, confirm |-> 20, notify |-> 0]

DRAWDOWN_COEFFICIENT == [kind |-> "max", block |-> 200, confirm |-> 150, notify |-> 50]

\* a rule over ratios, for values scaled by 10000
Scaled(rule) ==
    [kind |-> rule.kind, block |-> rule.block * 100,
     confirm |-> rule.confirm * 100, notify |-> rule.notify * 100]

\* the [strategy] values mu_at_ath and dd_coef a configuration file can hold
MuAtAthValues == {0, 10, 25, 30, 35}

DdCoefValues == {0, 40, 100, 175, 200, 225}

\* the value sum(weight * close) of the composition, in dollars, around the
\* reference DD_REFERENCE_ATH
PortPriceValues == {0, 2, 50, 100, 150, 198, 200, 250}

\* effective_drawdown, scaled by 100 (the values above divide exactly)
Drawdown(port_price) == 100 - (100 * port_price) \div DD_REFERENCE_ATH

\* the mutant of TargetMarginUse: the ceiling is the block level itself
TargetMarginUseAtBlock(mu_at_ath, dd_coef, dd) ==
    Min(mu_at_ath * 100 + dd_coef * dd, MARGIN_USAGE.block * 100)

\* get_target_margin_use, scaled by 10000
TargetMarginUse(mu_at_ath, dd_coef, dd) ==
    Min(mu_at_ath * 100 + dd_coef * dd, (MARGIN_USAGE.block - 1) * 100)

InitMargin ==
    /\ armed \in BOOLEAN
    /\ acct_state = [set |-> FALSE, age |-> 0]
    /\ price_watchers = EmptyMap
    /\ portfolio = EmptyMap
    /\ portfolio_prices = EmptyMap
    /\ rebalance_target = <<>>
    /\ order_id_queue = <<>>
    /\ order_manager = {}
    /\ rb_pc = "idle"
    /\ rb_orders = <<>>
    /\ rb_oid = NoOid
    /\ rb_exc = "none"
    /\ evt_exc = "none"
    /\ app = "running"
    /\ id_requests = 0
    /\ next_id = 1
    /\ broker = EmptyMap
    /\ cancel_sent = [o \in Oids |-> 0]
    /\ refreshes = [o \in Oids |-> 0]
    /\ \E mu \in MuAtAthValues, coef \in DdCoefValues, pp \in PortPriceValues,
          ans \in [1..3 -> {"YES", "no"}] :
          h = [pc |-> "config", mu_at_ath |-> mu, dd_coef |-> coef, port_price |-> pp,
               ans |-> ans, dd |-> 0, target_mu |-> 0, rules |-> <<>>, exc |-> "none"]

MarginFrame ==
    UNCHANGED <<armed, acct_state, price_watchers, portfolio, portfolio_prices,
                rebalance_target, order_id_queue, order_manager, rb_pc, rb_orders,
                rb_oid, rb_exc, evt_exc, app, id_requests, next_id, broker,
                cancel_sent, refreshes>>

\* read_config: mu_at_ath and dd_coef go through their rules, in this order
ReadConfig ==
    /\ h.pc = "config"
    /\ LET v1 == Validate(ATH_MARGIN_USE, h.mu_at_ath, h.ans[1])
           v2 == Validate(DRAWDOWN_COEFFICIENT, h.dd_coef, h.ans[2])
       IN  h' = IF v1.raised
                THEN [h EXCEPT !.pc = "fault", !.exc = "SecurityFault",
                               !.rules = <<"ATH_MARGIN_USE">>]
                ELSE IF v2.raised
                THEN [h EXCEPT !.pc = "fault", !.exc = "SecurityFault",
                               !.rules = <<"ATH_MARGIN_USE", "DRAWDOWN_COEFFICIENT">>]
                ELSE [h EXCEPT !.pc = "ready",
                               !.rules = <<"ATH_MARGIN_USE", "DRAWDOWN_COEFFICIENT">>]
    /\ MarginFrame

\* get_target_margin_use with effective_drawdown and its assertion
GetTargetMarginUse ==
    /\ h.pc = "ready"
    /\ LET out == Drawdown(h.port_price) IN
       h' = IF ~(0 <= out /\ out < 100)
            THEN [h EXCEPT !.pc = "fault", !.exc = "AssertionError", !.dd = out]
            ELSE [h EXCEPT !.pc = "target", !.dd = out,
                           !.target_mu = TargetMarginUse(h.mu_at_ath, h.dd_coef, out)]
    /\ MarginFrame

\* get_loan_at_target_utilization: the target goes through the margin-usage
\* rule, then the loan is derived
GetLoanAtTargetUtilization ==
    /\ h.pc = "target"
    /\ h' = IF Validate(Scaled(MARGIN_USAGE), h.target_mu, h.ans[3]).raised
            THEN [h EXCEPT !.pc = "fault", !.exc = "SecurityFault",
                           !.rules = Append(@, "MARGIN_USAGE")]
            ELSE [h EXCEPT !.pc = "loan", !.rules = Append(@, "MARGIN_USAGE")]
    /\ MarginFrame

NextMargin == ReadConfig \/ GetTargetMarginUse \/ GetLoanAtTargetUtilization

SpecMargin == InitMargin /\ [][NextMargin]_vars

\* C23: the target margin utilization equals min(at-peak margin target +
\* drawdown coefficient x effective drawdown, margin-usage block level -
\* 0.01) with the effective drawdown in [0, 1), a value outside being fatal,
\* so it is strictly below the margin-usage block level; its inputs and its
\* result have gone through their rules when the loan is derived from it.
C23_TargetMarginUse ==
    /\ h.pc \in {"target", "loan"} =>
          /\ 0 <= h.dd /\ h.dd < 100
          /\ h.dd * DD_REFERENCE_ATH = 100 * (DD_REFERENCE_ATH - h.port_price)
          /\ h.target_mu = IF h.mu_at_ath * 100 + h.dd_coef * h.dd < 7900
                           THEN h.mu_at_ath * 100 + h.dd_coef * h.dd ELSE 7900
          /\ h.target_mu < 8000
          /\ h.mu_at_ath <= 30 /\ h.dd_coef <= 200
    /\ (h.pc = "ready" /\ (h.port_price <= 0 \/ h.port_price > DD_REFERENCE_ATH)) =>
          ~ENABLED (GetTargetMarginUse /\ h'.pc = "target")
    /\ h.pc = "loan" =>
          /\ h.rules = <<"ATH_MARGIN_USE", "DRAWDOWN_COEFFICIENT", "MARGIN_USAGE">>
          /\ h.target_mu > 6000 => h.ans[3] = "YES"

\* a deep drawdown with a steep curve: the raw value is far above the
\* ceiling, the target is the ceiling, and the loan was derived after the
\* operator confirmed
C23_Witness ==
    /\ h.pc = "loan"
    /\ h.mu_at_ath * 100 + h.dd_coef * h.dd > 8000
    /\ h.target_mu = 7900

---------------------------------------------------------------------------
(* The order-id handoff *)

\* the ids requested and not yet taken: replies owed by the broker and the
\* content of the slot
InFlight == id_requests + Len(order_id_queue)

C24_SingleSlot ==
    /\ Len(order_id_queue) <= 1
    /\ InFlight <= 1
    /\ InFlight = 1 <=> rb_pc = "wait_id"
    /\ \A o \in Oids : Cardinality({e \in order_manager : e.oid = o}) <= 1

C24_HandoffStep ==
    /\ NextValidId =>
          /\ order_id_queue = <<>>
          /\ order_id_queue' = <<next_id>>
          /\ app' = "running"
    /\ PlaceTakeId =>
          /\ rb_oid' = next_id - 1
          /\ rb_oid' \notin DOMAIN broker
          /\ \A e \in order_manager : e.oid # rb_oid'
          /\ order_id_queue' = <<>>

\* C24: the order-id handoff is a single-slot exchange. With one reply per
\* request the slot never holds more than one id, the "Full order queue"
\* branch of next_requested_id is never taken, and the id a placement takes
\* is the reply to its own request and is used for at most one admitted
\* order.
C24_SingleSlotHandoff == []C24_SingleSlot /\ [][C24_HandoffStep]_vars

\* a second placement has taken the second id while the first order is at
\* the broker; the slot is empty and no reply is owed
C24_Witness ==
    /\ rb_pc = "enter"
    /\ rb_oid = 2
    /\ 1 \in DOMAIN broker
    /\ InFlight = 0

---------------------------------------------------------------------------
(* Progress of a placement.  The rebalance thread runs whenever it is not
   blocked, and the broker's reply to an id request is delivered by the
   event-dispatch thread whenever that thread runs.                         *)

SpecLive ==
    /\ Spec
    /\ WF_vars(NextValidId)
    /\ WF_vars(PlaceTakeId)
    /\ WF_vars(PlaceEnter)
    /\ WF_vars(PlaceSend)

\* safe_place_order has been entered and has not returned
Placing == rb_pc \in {"wait_id", "enter", "send"}

\* the replies can no longer be delivered: the application has shut down,
\* the event-dispatch thread has ended, or the broker's ids are used up
NoDelivery == app # "running" \/ evt_exc # "none" \/ next_id > MaxOid

\* while the rebalance thread waits for its id, either the id is in the
\* slot or the reply is owed and the event-dispatch thread is free to
\* deliver it: neither thread waits for the other
C25_NoCircularWait ==
    (rb_pc = "wait_id" /\ ~NoDelivery) =>
        \/ order_id_queue # <<>>
        \/ id_requests > 0 /\ EventThreadRuns

\* ids are requested and taken, and orders sent, by the steps of
\* safe_place_order on the rebalance thread only
C25_WorkerOnly ==
    /\ id_requests' > id_requests => PlaceRequestId
    /\ Len(order_id_queue') < Len(order_id_queue) => PlaceTakeId
    /\ DOMAIN broker' # DOMAIN broker => PlaceSend
    /\ (rb_pc' # rb_pc /\ rb_pc' \in {"wait_id", "enter", "send"}) =>
          (RebalanceThreadRuns /\ (PlaceRequestId \/ PlaceTakeId \/ PlaceEnter))

\* C25: order placement, with its untimed wait for the order-id reply, is
\* run by the rebalance thread only, never by an event callback or a
\* shutdown on the event-dispatch thread; no state is reachable in which the
\* two threads wait on each other, and every placement returns, provided
\* the reply to each id request is delivered.
C25_PlacementReturns ==
    /\ []C25_NoCircularWait
    /\ [][C25_WorkerOnly]_vars
    /\ (Placing ~> (~Placing \/ NoDelivery))

\* two placements have returned while the application runs: both orders
\* are at the broker and the rebalance thread is between iterations
C25_Witness ==
    /\ rb_pc = "idle"
    /\ app = "running"
    /\ Cardinality(DOMAIN broker) = 2
    /\ InFlight = 0

---------------------------------------------------------------------------
(* Adoption of an order the Order Manager does not know (openOrder)        *)

\* the order id is tracked for the instrument, in state TRANSMITTED
Adopted(om, oid, sc) ==
    \E e \in om : e.oid = oid /\ e.sc = sc /\ e.state = "TRANSMITTED"

\* an open-order callback for an unknown order id
C26_UnknownOpenOrder(oid) ==
    OpenOrder(oid) /\ OM_get_nc(order_manager, oid) = NoSc

\* C26: an open-order callback for an order id the Order Manager does not
\* know adopts the order: afterwards the order id is tracked for the
\* callback's instrument in state TRANSMITTED (so that later order-status
\* callbacks find it), whatever entry the instrument already had.
C26_UnknownOrderAdopted ==
    [][\A oid \in Oids :
          C26_UnknownOpenOrder(oid) =>
              /\ Adopted(order_manager', oid, broker[oid].sc)
              /\ OM_get_nc(order_manager', oid) = broker[oid].sc]_vars

---------------------------------------------------------------------------
(* The assertions of orderStatus                                           *)

\* C27: the assertions in the order-status handler hold in every reachable
\* state: for every order status of an order this process placed (the
\* cancellation of a retracted PENDING order and a status after the cooloff
\* entry has expired included), the order id is still tracked, its order is
\* retrievable, and the asserted transmit / finalize transition succeeds.
C27_AssertionsHold == evt_exc # "AssertionError"

====
